---- MODULE Spec2Model ----
(***************************************************************************)
(* PhotonLeap sequential ray tracer.                                       *)
(*                                                                         *)
(* Fixed-point conventions (Python floats are modelled by scaled integers, *)
(* every division rounds to the nearest integer):                          *)
(*   positions z, y, radius, thickness, diameter : millimetres             *)
(*   direction and normal components            : 1/DirScale               *)
(*   refractive indices and eta = n1/n2         : 1/IndexScale             *)
(*   wavelengths                                : 1/10 nm                  *)
(*   reflectivity and ray power                 : 1/PowerScale             *)
(***************************************************************************)
EXTENDS Integers, Sequences, FiniteSets, TLC

\* State of the in-browser tracer (pyodide/trace.py): run_trace and trace_ray.
\* idx_used, dir_out, returned and traced record what trace_ray did: the
\* indices used at every surface hit, the last change of direction, the paths
\* trace_ray returned and the number of calls of trace_ray.
VARIABLES optical_stack, pc, cumulative_z, z_target, fld_idx, k,
          ray_z, ray_y, ray_dz, ray_dy, n_before, path, i, completed_all,
          idx_used, dir_out, rays, ray_field_indices, ray_power,
          termination_log, refraction_log, traced, returned, result

\* State of the backend service (backend/trace_service.py): the function that
\* was called ("" before the call), and the arguments and the result of
\* optical_stack_to_surf_data and of get_metrics_at_z.
VARIABLES called, surfaces_in, surf_data, ray_data, z_pos, metrics

tracer_vars == <<optical_stack, pc, cumulative_z, z_target, fld_idx, k,
                 ray_z, ray_y, ray_dz, ray_dy, n_before, path, i, completed_all,
                 idx_used, dir_out, rays, ray_field_indices, ray_power,
                 termination_log, refraction_log, traced, returned, result>>

backend_vars == <<called, surfaces_in, surf_data, ray_data, z_pos, metrics>>

\* State of the best-focus search of the backend's run_trace: fpc is "idle"
\* before it, "golden" inside the loop of _best_focus_golden_section and
\* "done" after best_focus_z is set; searched says whether the search ran.
VARIABLES fpc, rays_by_field, focus_mode, last_lens_z, focus_z, z_a, z_b, iter,
          searched, best_focus_z, best_rms

focus_vars == <<fpc, rays_by_field, focus_mode, last_lens_z, focus_z, z_a, z_b, iter,
                searched, best_focus_z, best_rms>>

\* run_chromatic_shift: the position of the call, its arguments, the wavelength
\* accumulator and list, the index of the sweep and the list built so far.
\* wavelengths holds the first MaxWavelengths entries of the list; spin flips
\* with every pass of the while loop beyond them.
VARIABLES cpc, impl, chroma_surfaces, wavelength_min_nm, wavelength_max_nm,
          wavelength_step_nm, fault, w, wavelengths, wi, shift, spin

chroma_vars == <<cpc, impl, chroma_surfaces, wavelength_min_nm, wavelength_max_nm,
                 wavelength_step_nm, fault, w, wavelengths, wi, shift, spin>>

\* run_monte_carlo and run_optimize_colors: dicts and stacks are the dict
\* objects alive during a call, the caller's surface dicts first and the
\* caller's optical_stack as stacks[1]; rng is the generator of the call and
\* entropy what an unseeded generator would start from.
VARIABLES mpc, call_kind, mc_request, dicts, stacks, rng, entropy, it, all_spots,
          surf_idx, sens_it, surf_spots, sensitivity_by_surface, jittered_surfaces,
          sens_perturbed, mc_result, ncalls, first_call, between,
          recommended_glass

mc_vars == <<mpc, call_kind, mc_request, dicts, stacks, rng, entropy, it, all_spots,
             surf_idx, sens_it, surf_spots, sensitivity_by_surface, jittered_surfaces,
             sens_perturbed, mc_result, ncalls, first_call, between,
             recommended_glass>>

\* run_chromatic_shift of the in-browser tracer, called after run_trace:
\* spc is the position of the call, shift_w and shift_k the wavelength and
\* the ray of the pass.
VARIABLES spc, shift_w, shift_k

shift_vars == <<spc, shift_w, shift_k>>

\* run_trace of the backend service: the position of the call, its surfaces
\* and wavelength, the step of it that fails ("" for none), whether a step
\* has failed, and what the call returned.
VARIABLES rt_pc, rt_surfaces, rt_wvl_nm, rt_fault, rt_failed, rt_result

rt_vars == <<rt_pc, rt_surfaces, rt_wvl_nm, rt_fault, rt_failed, rt_result>>

\* The surface table of the editor (app.py), thicknesses and Z-Positions in
\* 1/ZScale mm, the handler that ran last, and the surfaces and the
\* cumulative_z of a call of run_trace.
VARIABLES editor_stack, editor_op, cz_surfaces, cz_result

editor_vars == <<editor_stack, editor_op, cz_surfaces, cz_result>>

\* A call of snell_law (backend/rayoptics_utils.py): its arguments, the
\* indices in 1/IndexScale and the angle in 1/AngleScale degree, its result
\* and the result for the opposite angle; snell_n1 is 0 before the call.
VARIABLES snell_n1, snell_n2, snell_theta1, snell_theta2, snell_theta2_neg

snell_vars == <<snell_n1, snell_n2, snell_theta1, snell_theta2, snell_theta2_neg>>

\* A LENS-X round trip: the position ("idle", "exported", "imported",
\* "raised"), the surfaces handed to to_lens_x, the optics.surfaces of the
\* document and the surfaces import_from_json returns.
VARIABLES lx_pc, lx_surfaces, lx_document, lx_imported

lens_x_vars == <<lx_pc, lx_surfaces, lx_document, lx_imported>>

\* The candidate search of run_optimize_colors: the position, the number of
\* surfaces and the first material of the stack, the chromatic aberration of
\* the singlet, the index of the library entry under evaluation, the
\* aberration found for each entry so far (None for an entry that is skipped
\* or gives none), the best so far, and the dict returned.  Aberrations are
\* in 1/LcaScale mm.
VARIABLES opt_pc, opt_surfaces, opt_mat1, opt_lca_singlet, opt_ci, opt_lcas, opt_best_glass, opt_best_lca, opt_result

opt_vars == <<opt_pc, opt_surfaces, opt_mat1, opt_lca_singlet, opt_ci, opt_lcas, opt_best_glass, opt_best_lca, opt_result>>

\* The state outside the in-browser tracer and outside the two backend
\* functions above, and the frame of each of its parts.
job_vars == <<focus_vars, chroma_vars, mc_vars, shift_vars, rt_vars, editor_vars, snell_vars, lens_x_vars, opt_vars>>
not_focus_vars == <<tracer_vars, backend_vars, chroma_vars, mc_vars, shift_vars, rt_vars, editor_vars, snell_vars, lens_x_vars, opt_vars>>
not_chroma_vars == <<tracer_vars, backend_vars, focus_vars, mc_vars, shift_vars, rt_vars, editor_vars, snell_vars, lens_x_vars, opt_vars>>
not_mc_vars == <<tracer_vars, backend_vars, focus_vars, chroma_vars, shift_vars, rt_vars, editor_vars, snell_vars, lens_x_vars, opt_vars>>
not_shift_vars == <<tracer_vars, backend_vars, focus_vars, chroma_vars, mc_vars, rt_vars, editor_vars, snell_vars, lens_x_vars, opt_vars>>
not_rt_vars == <<tracer_vars, backend_vars, focus_vars, chroma_vars, mc_vars, shift_vars, editor_vars, snell_vars, lens_x_vars, opt_vars>>
beside_shift_vars == <<backend_vars, focus_vars, chroma_vars, mc_vars, rt_vars, editor_vars, snell_vars, lens_x_vars, opt_vars>>
not_editor_vars == <<tracer_vars, backend_vars, focus_vars, chroma_vars, mc_vars, shift_vars, rt_vars, snell_vars, lens_x_vars, opt_vars>>
not_snell_vars == <<tracer_vars, backend_vars, focus_vars, chroma_vars, mc_vars, shift_vars, rt_vars, editor_vars, lens_x_vars, opt_vars>>
not_lens_x_vars == <<tracer_vars, backend_vars, focus_vars, chroma_vars, mc_vars, shift_vars, rt_vars, editor_vars, snell_vars, opt_vars>>
not_opt_vars == <<tracer_vars, backend_vars, focus_vars, chroma_vars, mc_vars, shift_vars, rt_vars, editor_vars, snell_vars, lens_x_vars>>
outside_mc == <<not_mc_vars, recommended_glass>>
service_vars == <<backend_vars, job_vars>>

vars == <<tracer_vars, backend_vars, job_vars>>

(***************************************************************************)
(* Scales and bounds of the model.                                         *)
(***************************************************************************)
DirScale == 10 * 10
IndexScale == 10 * 10 * 10
PowerScale == 10 * 10 * 10
CurvScale == 10 * 10 * 10
MetricScale == 10 * 10
WeightScale == 10 * 10 * 10
SearchScale == 5 * 10
FocusScale == 10 * 10

MaxSurfaces == 2
MaxRays == 3
MaxFields == 1
MaxRayData == 2
MaxFocusFields == 2

(***************************************************************************)
(* Program constants.                                                      *)
(***************************************************************************)
RAY_START_Z == -10
Z_TARGET == 150
MAX_SURFACES == 100
MAX_TERM_LOG == 20
MAX_REFR_LOG == 50
DEFAULT_DIAMETER == 25
DEFAULT_EPD == 10
DEFAULT_WVL == 5876
DEFAULT_INDEX == 1520
AIR_INDEX == 1000
MIN_INDEX == 100
MAX_INDEX == 10000
EXT_MIN == 50
EFL_FALLBACK == 80
RAY_POWER == 980
INF == 2147483647
MAX_ITER == 80
FOCUS_TOL == 1

TERM_TIR == "TIR"
TERM_MISSED == "MISSED_SURFACE"
TERM_APERTURE == "APERTURE"
TERM_NUMERICAL == "NUMERICAL"

(***************************************************************************)
(* Arithmetic helpers: Python float operations on the fixed-point grid.    *)
(***************************************************************************)
Abs(x) == IF x < 0 THEN -x ELSE x
Min(a, b) == IF a < b THEN a ELSE b
Max(a, b) == IF a > b THEN a ELSE b

\* a / b rounded to the nearest integer (b /= 0).
RDiv(a, b) ==
    LET n == IF b < 0 THEN -a ELSE a
        d == Abs(b)
    IN  (2 * n + d) \div (2 * d)

RECURSIVE SqrtSearch(_, _, _)
SqrtSearch(n, lo, hi) ==
    IF lo >= hi THEN lo
    ELSE LET mid == (lo + hi + 1) \div 2
         IN  IF mid * mid <= n THEN SqrtSearch(n, mid, hi)
                               ELSE SqrtSearch(n, lo, mid - 1)

\* np.sqrt on the grid: floor of the square root of n >= 0.
ISqrt(n) == SqrtSearch(n, 0, Min(n, 46340))

RECURSIVE SeqSum(_)
SeqSum(s) == IF s = <<>> THEN 0 ELSE Head(s) + SeqSum(Tail(s))

(***************************************************************************)
(* Strings.  TLC treats strings as atoms, so str.strip().lower() is the    *)
(* table of its values on the strings the model uses.                      *)
(***************************************************************************)
LowerStrip(s) ==
    CASE s = "Air"     -> "air"
      [] s = " AIR "   -> "air"
      [] s = "air"     -> "air"
      [] s = "Glass"   -> "glass"
      [] s = "N-BK7"   -> "n-bk7"
      [] s = "BK7"     -> "bk7"
      [] s = "N-SF11"  -> "n-sf11"
      [] s = "N-CAF2"  -> "n-caf2"
      [] s = "Calcium Fluoride" -> "calcium fluoride"
      [] s = "Mirror"  -> "mirror"
      [] s = "HR"      -> "hr"
      [] s = " HR "    -> "hr"
      [] s = "   "     -> ""
      [] OTHER         -> s

\* str.strip() without lower().
Strip(s) ==
    CASE s = " AIR "   -> "AIR"
      [] s = " HR "    -> "HR"
      [] s = "   "     -> ""
      [] OTHER         -> s

(***************************************************************************)
(* Refractive indices (pyodide tracer).                                    *)
(***************************************************************************)
Wavelengths == {4860, DEFAULT_WVL, 6560}

\* n_from_sellmeier tabulated at the wavelengths of the model; a coefficient
\* set is named by the glass it belongs to, "short" is a set with fewer than
\* three B or C terms.
n_from_sellmeier(wvl_nm, sellmeier) ==
    CASE sellmeier = "short" -> DEFAULT_INDEX
      [] sellmeier = "n-bk7" ->
            (CASE wvl_nm = 4860 -> 1522 [] wvl_nm = 6560 -> 1514 [] OTHER -> 1517)
      [] sellmeier = "n-sf11" ->
            (CASE wvl_nm = 4860 -> 1806 [] wvl_nm = 6560 -> 1776 [] OTHER -> 1784)
      [] sellmeier = "calcium fluoride" ->
            (CASE wvl_nm = 4860 -> 1437 [] wvl_nm = 6560 -> 1432 [] OTHER -> 1434)
      [] OTHER -> AIR_INDEX

\* _GLASS_LIBRARY.get(key): "none" for a missing key, an alias is a string.
GLASS_LIBRARY(key) ==
    CASE key = "air"    -> [formula |-> "constant", n |-> AIR_INDEX, coeffs |-> "none"]
      [] key = "n-bk7"  -> [formula |-> "sellmeier", n |-> 0, coeffs |-> "n-bk7"]
      [] key = "bk7"    -> [formula |-> "alias", n |-> 0, coeffs |-> "n-bk7"]
      [] key = "n-sf11" -> [formula |-> "sellmeier", n |-> 0, coeffs |-> "n-sf11"]
      [] key = "calcium fluoride" ->
                           [formula |-> "sellmeier", n |-> 0, coeffs |-> "calcium fluoride"]
      [] key = "caf2"   -> [formula |-> "alias", n |-> 0, coeffs |-> "calcium fluoride"]
      [] OTHER          -> [formula |-> "none", n |-> 0, coeffs |-> "none"]

\* key[2:] for the keys that start with "n-".
DropNPrefix(key) ==
    CASE key = "n-bk7"  -> "bk7"
      [] key = "n-sf11" -> "sf11"
      [] key = "n-caf2" -> "caf2"
      [] OTHER          -> key

StartsWithN(key) == key \in {"n-bk7", "n-sf11", "n-caf2"}

_refractive_index_at_wavelength(wvl_nm, material_name, n_fallback) ==
    IF LowerStrip(material_name) = "" THEN n_fallback
    ELSE IF n_fallback <= 1001 THEN AIR_INDEX
    ELSE
      LET key == LowerStrip(material_name)
          e0  == GLASS_LIBRARY(key)
          e1  == IF e0.formula = "none" /\ StartsWithN(key)
                   THEN GLASS_LIBRARY(DropNPrefix(key)) ELSE e0
          e2  == IF e1.formula = "alias" THEN GLASS_LIBRARY(e1.coeffs) ELSE e1
      IN  CASE e1.formula = "none"      -> n_fallback
            [] e2.formula = "sellmeier" -> n_from_sellmeier(wvl_nm, e2.coeffs)
            [] e2.formula = "constant"  -> e2.n
            [] OTHER                    -> n_fallback

\* surface.get("refractiveIndex", 1.52) or 1.52
IndexOrDefault(surface) ==
    IF surface.refractiveIndex = 0 THEN DEFAULT_INDEX ELSE surface.refractiveIndex

get_n(surface, wvl_nm) ==
    LET n0 == IF surface.sellmeierCoefficients # "none"
                THEN n_from_sellmeier(wvl_nm, surface.sellmeierCoefficients)
                ELSE _refractive_index_at_wavelength(wvl_nm, surface.material,
                                                    IndexOrDefault(surface))
        n1 == IF n0 <= 0 THEN IndexOrDefault(surface) ELSE n0
    IN  Max(MIN_INDEX, Min(MAX_INDEX, n1))

get_n_after_stored(surfaces, idx, s, wvl_nm) ==
    IF LowerStrip(s.material) = "air" \/ LowerStrip(s.type) = "air" THEN AIR_INDEX
    ELSE get_n(s, wvl_nm)

get_n_after(surfaces, idx, s, wvl_nm) ==
    IF idx = Len(surfaces) THEN AIR_INDEX
    ELSE IF LowerStrip(s.material) = "air" \/ LowerStrip(s.type) = "air" THEN AIR_INDEX
    ELSE get_n(s, wvl_nm)

(***************************************************************************)
(* refract: vector form of Snell's law.  v_in and normal are unit vectors  *)
(* in 1/DirScale, n1 and n2 in 1/IndexScale.  Returns the new direction    *)
(* and the TIR flag.                                                       *)
(***************************************************************************)
refract(vx, vy, nx, ny, n1, n2) ==
    IF n2 <= 0 THEN [dz |-> 0, dy |-> 0, tir |-> TRUE]
    ELSE
      LET eta         == RDiv(n1 * IndexScale, n2)
          cos_theta_i == RDiv(-(nx * vx + ny * vy), DirScale)
          sin2_i      == DirScale * DirScale - cos_theta_i * cos_theta_i
          sin2_t      == DirScale * DirScale
                           - RDiv(eta * RDiv(eta * sin2_i, IndexScale), IndexScale)
      IN  IF sin2_t < 0 THEN [dz |-> 0, dy |-> 0, tir |-> TRUE]
          ELSE
            LET cos_theta_t == ISqrt(sin2_t)
                coeff  == RDiv(eta * cos_theta_i, IndexScale) - cos_theta_t
                out_dz == RDiv(eta * vx, IndexScale) + RDiv(coeff * nx, DirScale)
                out_dy == RDiv(eta * vy, IndexScale) + RDiv(coeff * ny, DirScale)
                nrm    == ISqrt(out_dz * out_dz + out_dy * out_dy)
            IN  IF nrm = 0 THEN [dz |-> vx, dy |-> vy, tir |-> FALSE]
                ELSE [dz |-> RDiv(out_dz * DirScale, nrm),
                      dy |-> RDiv(out_dy * DirScale, nrm), tir |-> FALSE]

(***************************************************************************)
(* Surfaces.                                                               *)
(***************************************************************************)
\* float(s.get("radius", 0) or 0); radius == 0 or abs(radius) > 1e10 is flat.
IsFlat(s) == s.radius = 0

\* float(s.get("diameter", 25) or 25): twice the semi-diameter.
DiameterOf(s) == IF s.diameter = 0 THEN DEFAULT_DIAMETER ELSE s.diameter

\* Intersection of the ray with surface s whose vertex is at z_vertex.
\* kind is "hit" or the termination reason; a hit carries the point and the
\* normal turned against the incident direction.
Intersect(s, z_vertex, rz, ry, dz, dy) ==
    IF IsFlat(s) THEN
        \* t_hit = (z_surf - ray_z) / ray_dz; a negative t_hit misses.
        IF (z_vertex - rz) * dz < 0
          THEN [kind |-> TERM_MISSED, z |-> 0, y |-> 0, nx |-> 0, ny |-> 0]
          ELSE LET y_surf == ry + RDiv((z_vertex - rz) * dy, dz)
                   n0     == IF dz > 0 THEN DirScale ELSE -DirScale
                   flip   == dz * n0 > 0
               IN  [kind |-> "hit", z |-> z_vertex, y |-> y_surf,
                    nx |-> IF flip THEN -n0 ELSE n0, ny |-> 0]
    ELSE
        LET radius   == s.radius
            center_z == z_vertex + radius
            Lz       == center_z - rz
            Ly       == 0 - ry
            a        == dz * dz + dy * dy
            b        == -2 * (dz * Lz + dy * Ly)
            c_coef   == Lz * Lz + Ly * Ly - radius * radius
            disc     == b * b - 4 * a * c_coef
        IN  IF disc < 0
              THEN [kind |-> TERM_MISSED, z |-> 0, y |-> 0, nx |-> 0, ny |-> 0]
              ELSE
                \* t = tn / (2a); with |direction| = 1 the test t > T_MIN
                \* (1e-4 mm) is tn > 0 on the grid.
                LET sqrt_d == ISqrt(disc)
                    t1     == -b - sqrt_d
                    t2     == -b + sqrt_d
                    cand   == {t \in {t1, t2} : t > 0}
                IN  IF cand = {}
                      THEN [kind |-> TERM_NUMERICAL, z |-> 0, y |-> 0, nx |-> 0, ny |-> 0]
                      ELSE
                        LET t_hit  == CHOOSE t \in cand : \A u \in cand : t <= u
                            z_surf == rz + RDiv(t_hit * dz, 2 * a)
                            y_surf == ry + RDiv(t_hit * dy, 2 * a)
                            nx     == RDiv((z_surf - center_z) * DirScale, Abs(radius))
                            ny     == RDiv(y_surf * DirScale, Abs(radius))
                            flip   == dz * nx + dy * ny > 0
                        IN  [kind |-> "hit", z |-> z_surf, y |-> y_surf,
                             nx |-> IF flip THEN -nx ELSE nx,
                             ny |-> IF flip THEN -ny ELSE ny]

\* The outcome of one pass of the body of trace_ray's loop: term is "" when
\* the ray goes on to the next surface and the termination reason when the
\* loop breaks; hit says whether the hit point was appended to the path;
\* raised is the MATCH AUDIT ValueError; (vx, vy) is the incident direction,
\* (nx, ny) the normal, (dz, dy) and (rz, ry) the ray after the pass.
Outcome(term, raised, hit, hz, hy, n1, n2, vx, vy, nx, ny, dz, dy, rz, ry) ==
    [term |-> term, raised |-> raised, hit |-> hit, hz |-> hz, hy |-> hy,
     n1 |-> n1, n2 |-> n2, vx |-> vx, vy |-> vy, nx |-> nx, ny |-> ny,
     dz |-> dz, dy |-> dy, rz |-> rz, ry |-> ry]

Terminated(reason, rz, ry, dz, dy, nb, n_after) ==
    Outcome(reason, FALSE, FALSE, 0, 0, nb, n_after, dz, dy, 0, 0, dz, dy, rz, ry)

\* Steps 3 to 5 of the loop body: the result r of refract at hit point h.
AfterRefract(h, rz, ry, dz, dy, nb, n_after, r) ==
    IF r.tir
      THEN Outcome(TERM_TIR, FALSE, TRUE, h.z, h.y, nb, n_after, dz, dy, h.nx, h.ny,
                   r.dz, r.dy, rz, ry)
    ELSE IF r.dz = 0 /\ r.dy = 0
      THEN Outcome(TERM_NUMERICAL, FALSE, TRUE, h.z, h.y, nb, n_after, dz, dy, h.nx, h.ny,
                   r.dz, r.dy, rz, ry)
    \* nudge by NUDGE_EPS = 0.001 mm along the new direction
    ELSE Outcome("", FALSE, TRUE, h.z, h.y, nb, n_after, dz, dy, h.nx, h.ny, r.dz, r.dy,
                 h.z + RDiv(r.dz, DirScale * 1000), h.y + RDiv(r.dy, DirScale * 1000))

\* str(s.get("material") or s.get("type") or "?")
MatName(s) == IF s.material # "" THEN s.material ELSE IF s.type # "" THEN s.type ELSE "?"

AfterIntersect_unclipped(s, h, rz, ry, dz, dy, nb, n_after) ==
    IF h.kind # "hit" THEN Terminated(h.kind, rz, ry, dz, dy, nb, n_after)
    ELSE AfterRefract(h, rz, ry, dz, dy, nb, n_after,
                      refract(dz, dy, h.nx, h.ny, nb, n_after))

\* The loop body after the intersection h: aperture test, append of the hit
\* point, MATCH AUDIT, refraction.
AfterIntersect(s, h, rz, ry, dz, dy, nb, n_after) ==
    IF h.kind # "hit" THEN Terminated(h.kind, rz, ry, dz, dy, nb, n_after)
    ELSE IF 2 * Abs(h.y) > DiameterOf(s)
      THEN Terminated(TERM_APERTURE, rz, ry, dz, dy, nb, n_after)
    ELSE IF LowerStrip(MatName(s)) = "air" /\ n_after # AIR_INDEX
      THEN Outcome("", TRUE, TRUE, h.z, h.y, nb, n_after, dz, dy, h.nx, h.ny, dz, dy, rz, ry)
    ELSE AfterRefract(h, rz, ry, dz, dy, nb, n_after,
                      refract(dz, dy, h.nx, h.ny, nb, n_after))

\* One pass of the body of trace_ray's loop, for surface idx (1-based).
SurfaceStep(surfaces, idx, cz, rz, ry, dz, dy, nb, wvl_nm) ==
    IF idx - 1 >= MAX_SURFACES
      THEN Terminated(TERM_NUMERICAL, rz, ry, dz, dy, nb, nb)
    ELSE IF dz = 0
      THEN Terminated(TERM_NUMERICAL, rz, ry, dz, dy, nb,
                      get_n_after(surfaces, idx, surfaces[idx], wvl_nm))
    ELSE AfterIntersect(surfaces[idx],
                        Intersect(surfaces[idx], cz[idx], rz, ry, dz, dy),
                        rz, ry, dz, dy, nb,
                        get_n_after(surfaces, idx, surfaces[idx], wvl_nm))

(***************************************************************************)
(* run_trace (pyodide): inputs.                                            *)
(***************************************************************************)
Surface(type, radius, thickness, index, diameter, material, coating, sellmeier) ==
    [type |-> type, radius |-> radius, thickness |-> thickness,
     refractiveIndex |-> index, diameter |-> diameter, material |-> material,
     coating |-> coating, sellmeierCoefficients |-> sellmeier]

SurfaceCatalog ==
    { Surface("Glass", 50, 5, 1517, 25, "N-BK7", "", "none"),
      Surface("Air", -50, 2, 1000, 25, "Air", "", "none"),
      Surface("Air", 0, 20, 1000, 0, " AIR ", "", "none"),
      Surface("Glass", 0, 3, 1600, 8, "", "", "none"),
      Surface("Air", -6, 2, 1000, 25, "Air", "", "none"),
      Surface("Glass", 3, 2, 1500, 25, "BK7", "", "none"),
      Surface("Glass", 0, 4, 1517, 25, "N-BK7", "HR", "none"),
      Surface("air", -40, 1, 1500, 25, "", "", "n-bk7") }

RECURSIVE SeqsUpTo(_, _)
SeqsUpTo(S, n) ==
    IF n = 0 THEN {<<>>}
    ELSE LET shorter == SeqsUpTo(S, n - 1)
         IN  shorter \cup {Append(q, x) : q \in {t \in shorter : Len(t) = n - 1}, x \in S}

FieldAngleValues == {0, 30, 90, 180}

\* (cos, sin) of a field angle in degrees, in 1/DirScale.
DirOf(angle_deg) ==
    CASE angle_deg = 0   -> <<100, 0>>
      [] angle_deg = 30  -> <<87, 50>>
      [] angle_deg = 90  -> <<0, 100>>
      [] angle_deg = 180 -> <<-100, 0>>

Stacks ==
    [surfaces : SeqsUpTo(SurfaceCatalog, MaxSurfaces),
     entrancePupilDiameter : {DEFAULT_EPD},
     wavelengths : {<<DEFAULT_WVL>>},
     numRays : 1..MaxRays,
     fieldAngles : SeqsUpTo(FieldAngleValues, MaxFields)]

NoStack == [surfaces |-> <<>>, entrancePupilDiameter |-> DEFAULT_EPD,
            wavelengths |-> <<DEFAULT_WVL>>, numRays |-> 1, fieldAngles |-> <<>>]

\* max(2, int(num_rays))
NumRays(stack) == Max(2, stack.numRays)

\* (optical_stack.get("fieldAngles") or [0])[:3]
FieldAngles(stack) ==
    LET fa == IF stack.fieldAngles = <<>> THEN <<0>> ELSE stack.fieldAngles
    IN  SubSeq(fa, 1, Min(3, Len(fa)))

\* cumulative_z[i] = sum of the thicknesses of the surfaces before surface i.
RECURSIVE CumulativeZ(_)
CumulativeZ(surfaces) ==
    IF Len(surfaces) <= 1 THEN <<0>>
    ELSE LET front == SubSeq(surfaces, 1, Len(surfaces) - 1)
             cz    == CumulativeZ(front)
         IN  Append(cz, cz[Len(cz)] + front[Len(front)].thickness)

\* z_cur: vertex of the last surface plus its thickness.
ZCur(surfaces) ==
    LET cz == CumulativeZ(surfaces)
    IN  cz[Len(cz)] + surfaces[Len(surfaces)].thickness

\* _paraxial_efl_mm: thin-lens focal length, 0 standing for None.
ParaxialEfl(surfaces, wvl_nm) ==
    IF Len(surfaces) < 2 THEN 0
    ELSE LET r1 == surfaces[1].radius
             r2 == surfaces[2].radius
             n  == get_n(surfaces[1], wvl_nm)
         IN  IF r1 = 0 \/ r2 = 0 THEN 0
             ELSE IF (n - IndexScale) * (r2 - r1) = 0 THEN 0
             ELSE RDiv(r1 * r2 * IndexScale, (n - IndexScale) * (r2 - r1))

\* z_target = z_cur + max(50, min((paraxial_efl or 80) * 0.6, Z_TARGET))
ZTarget(surfaces, wvl_nm) ==
    LET efl  == ParaxialEfl(surfaces, wvl_nm)
        efl1 == IF efl = 0 THEN EFL_FALLBACK ELSE efl
    IN  ZCur(surfaces) + Max(EXT_MIN, Min(RDiv(efl1 * 6, 10), Z_TARGET))

\* y0 = (epd / 2) * ((k / max(1, num_rays - 1) - 0.5) * 2), k counted from 0.
RayHeight(epd, num_rays, kk) ==
    RDiv(epd * (2 * kk - (num_rays - 1)), 2 * (num_rays - 1))

(***************************************************************************)
(* run_trace (pyodide) as a state machine.  pc is the position in the      *)
(* call: "idle" before a call, "fan" at the head of the ray-fan loops,     *)
(* "surf" inside trace_ray's loop over the surfaces, "ext" after that loop,*)
(* "done" after run_trace returned, "raised" after it raised.              *)
(***************************************************************************)
NoDir == [surf |-> 0, vx |-> 0, vy |-> 0, nx |-> 0, ny |-> 0, dz |-> 0, dy |-> 0,
          tir |-> FALSE]

\* An optional number: None is the empty sequence, a number v is <<v>>.
None == <<>>
Some(v) == <<v>>

NoMetrics == [rmsRadius |-> None, beamWidth |-> None, chiefRayAngle |-> None,
              yCentroid |-> None, numRays |-> 0]

NoResult == [error |-> "none", rays |-> <<>>, rayFieldIndices |-> <<>>,
             rayPower |-> <<>>, terminationLog |-> <<>>, refractionLog |-> <<>>]

\* An optical_stack as run_monte_carlo and run_optimize_colors read it, and
\* the dict run_monte_carlo returns.
Request(surfaces, numRays, iterations) ==
    [surfaces |-> surfaces, numRays |-> numRays, iterations |-> iterations]

NoRequest == Request(<<>>, 0, 0)

McResult(error, spots, rmsSpread, numValid, sensitivityBySurface) ==
    [error |-> error, spots |-> spots, rmsSpread |-> rmsSpread,
     numValid |-> numValid, sensitivityBySurface |-> sensitivityBySurface]

NoMcResult == McResult("", <<>>, 0, 0, None)

Init ==
    /\ optical_stack = NoStack
    /\ pc = "idle"
    /\ cumulative_z = <<0>>
    /\ z_target = 0
    /\ fld_idx = 1
    /\ k = 0
    /\ ray_z = 0 /\ ray_y = 0 /\ ray_dz = 0 /\ ray_dy = 0
    /\ n_before = AIR_INDEX
    /\ path = <<>>
    /\ i = 1
    /\ completed_all = TRUE
    /\ idx_used = <<>>
    /\ dir_out = NoDir
    /\ rays = <<>> /\ ray_field_indices = <<>> /\ ray_power = <<>>
    /\ termination_log = <<>>
    /\ refraction_log = <<>>
    /\ traced = 0
    /\ returned = <<>>
    /\ result = NoResult
    /\ called = ""
    /\ surfaces_in = <<>> /\ surf_data = <<>>
    /\ ray_data = <<>> /\ z_pos = 0 /\ metrics = NoMetrics
    /\ fpc = "idle" /\ rays_by_field = <<>> /\ focus_mode = "On-Axis"
    /\ last_lens_z = 0 /\ focus_z = 0 /\ z_a = 0 /\ z_b = 0 /\ iter = 0
    /\ searched = FALSE /\ best_focus_z = 0 /\ best_rms = 0
    /\ spin = FALSE /\ cpc = "idle" /\ impl = "backend" /\ chroma_surfaces = <<>>
    /\ wavelength_min_nm = 0 /\ wavelength_max_nm = 0 /\ wavelength_step_nm = 1
    /\ fault = <<>> /\ w = 0 /\ wavelengths = <<>> /\ wi = 1 /\ shift = <<>>
    /\ mpc = "idle" /\ call_kind = "" /\ mc_request = NoRequest
    /\ dicts = <<>> /\ stacks = <<>> /\ rng = 0 /\ entropy = 0 /\ it = 0
    /\ all_spots = <<>> /\ surf_idx = 1 /\ sens_it = 0 /\ surf_spots = <<>>
    /\ sensitivity_by_surface = <<>> /\ jittered_surfaces = <<>>
    /\ sens_perturbed = <<>> /\ mc_result = NoMcResult /\ ncalls = 0
    /\ first_call = <<>> /\ between = FALSE /\ recommended_glass = ""
    /\ spc = "idle" /\ shift_w = 1 /\ shift_k = 0
    /\ rt_pc = "idle" /\ rt_surfaces = <<>> /\ rt_wvl_nm = 0
    /\ rt_fault = "" /\ rt_failed = FALSE /\ rt_result = <<>>
    /\ editor_stack = << [Thickness |-> 500000, Z_Position |-> 0],
                       [Thickness |-> 9500000, Z_Position |-> 500000] >>
    /\ editor_op = "" /\ cz_surfaces = <<>> /\ cz_result = <<0>>
    /\ snell_n1 = 0 /\ snell_n2 = 0 /\ snell_theta1 = 0
    /\ snell_theta2 = None /\ snell_theta2_neg = None
    /\ lx_pc = "idle" /\ lx_surfaces = <<>> /\ lx_document = <<>> /\ lx_imported = <<>>
    /\ opt_pc = "idle" /\ opt_surfaces = 0 /\ opt_mat1 = "" /\ opt_lca_singlet = None
    /\ opt_ci = 1 /\ opt_lcas = <<>> /\ opt_best_glass = "" /\ opt_best_lca = INF
    /\ opt_result = [recommended_glass |-> "", estimated_lca_reduction |-> 0]

RayVarsReset ==
    /\ ray_z' = 0 /\ ray_y' = 0 /\ ray_dz' = 0 /\ ray_dy' = 0
    /\ n_before' = AIR_INDEX
    /\ path' = <<>>
    /\ i' = 1
    /\ completed_all' = TRUE
    /\ idx_used' = <<>>
    /\ dir_out' = NoDir

\* run_trace up to the ray-fan loop: the logs are cleared, an empty surface
\* list returns the "No surfaces" error at once.
run_trace_call(stack) ==
    /\ optical_stack' = stack
    /\ termination_log' = <<>>
    /\ refraction_log' = <<>>
    /\ rays' = <<>> /\ ray_field_indices' = <<>> /\ ray_power' = <<>>
    /\ traced' = 0
    /\ returned' = <<>>
    /\ UNCHANGED service_vars
    /\ fld_idx' = 1
    /\ k' = 0
    /\ RayVarsReset
    /\ IF stack.surfaces = <<>>
         THEN /\ pc' = "done"
              /\ result' = [NoResult EXCEPT !.error = "No surfaces"]
              /\ cumulative_z' = <<0>>
              /\ z_target' = 0
         ELSE /\ pc' = "fan"
              /\ result' = NoResult
              /\ cumulative_z' = CumulativeZ(stack.surfaces)
              /\ z_target' = ZTarget(stack.surfaces, stack.wavelengths[1])

run_trace_begin ==
    /\ pc = "idle"
    /\ \E stack \in Stacks : run_trace_call(stack)

\* Head of the loops over the fields and the pupil samples: start trace_ray
\* for ray k of field fld_idx.
trace_ray_begin ==
    /\ pc = "fan"
    /\ fld_idx <= Len(FieldAngles(optical_stack))
    /\ LET d  == DirOf(FieldAngles(optical_stack)[fld_idx])
           y0 == RayHeight(optical_stack.entrancePupilDiameter, NumRays(optical_stack), k)
       IN  /\ ray_z' = RAY_START_Z
           /\ ray_y' = y0
           /\ ray_dz' = d[1]
           /\ ray_dy' = d[2]
           /\ path' = <<<<RAY_START_Z, y0>>>>
    /\ n_before' = AIR_INDEX
    /\ completed_all' = TRUE
    /\ i' = 1
    /\ idx_used' = <<>>
    /\ dir_out' = NoDir
    /\ traced' = traced + 1
    /\ pc' = "surf"
    /\ UNCHANGED <<optical_stack, cumulative_z, z_target, fld_idx, k, rays,
                   ray_field_indices, ray_power, termination_log, refraction_log,
                   returned, result, service_vars>>

\* _log_termination: at most MAX_TERM_LOG entries are kept.
LogTermination(log, reason, surf) ==
    IF Len(log) < MAX_TERM_LOG THEN Append(log, [reason |-> reason, surf |-> surf]) ELSE log

NextPc_abort(o) == IF o.raised \/ o.term # "" THEN "raised" ELSE "surf"

\* Where trace_ray goes after one pass o of the loop body: the MATCH AUDIT
\* raise leaves run_trace, a termination breaks out of the loop.
NextPc(o) == IF o.raised THEN "raised" ELSE IF o.term # "" THEN "ext" ELSE "surf"

\* The effect of one pass o of the loop body on the state of trace_ray.
ApplyOutcome(o, log_refraction) ==
    /\ path' = IF o.hit THEN Append(path, <<o.hz, o.hy>>) ELSE path
    /\ idx_used' = IF o.hit /\ ~o.raised
                     THEN Append(idx_used, [surf |-> i, n1 |-> o.n1, n2 |-> o.n2,
                                            z |-> o.hz, y |-> o.hy])
                     ELSE idx_used
    /\ dir_out' = IF o.hit /\ ~o.raised
                    THEN [surf |-> i, vx |-> o.vx, vy |-> o.vy, nx |-> o.nx,
                          ny |-> o.ny, dz |-> o.dz, dy |-> o.dy, tir |-> o.term = TERM_TIR]
                    ELSE dir_out
    /\ refraction_log' =
         IF o.hit /\ ~o.raised /\ log_refraction /\ Len(refraction_log) < MAX_REFR_LOG
           THEN Append(refraction_log, [surf |-> i, n1 |-> o.n1, n2 |-> o.n2])
           ELSE refraction_log
    /\ termination_log' =
         IF o.term # "" THEN LogTermination(termination_log, o.term, i)
                        ELSE termination_log
    /\ ray_dz' = o.dz
    /\ ray_dy' = o.dy
    /\ ray_z' = o.rz
    /\ ray_y' = o.ry
    /\ n_before' = IF o.term = "" /\ ~o.raised THEN o.n2 ELSE n_before
    /\ completed_all' = (completed_all /\ o.term = "")
    /\ i' = IF o.term = "" /\ ~o.raised THEN i + 1 ELSE i
    /\ pc' = NextPc(o)

\* One iteration of trace_ray's loop over the surfaces.
trace_ray_surface ==
    /\ pc = "surf"
    /\ i <= Len(optical_stack.surfaces)
    /\ ApplyOutcome(SurfaceStep(optical_stack.surfaces, i, cumulative_z, ray_z, ray_y,
                                ray_dz, ray_dy, n_before, optical_stack.wavelengths[1]),
                    fld_idx = 1 /\ k = 0)
    /\ UNCHANGED <<optical_stack, cumulative_z, z_target, fld_idx, k, rays,
                   ray_field_indices, ray_power, traced, returned, result, service_vars>>

FinalPath_always(p, completed, rz, ry, dz, dy, zt) ==
    IF p # <<>> /\ dz # 0 /\ rz < zt /\ (zt - rz) * dz > 0
      THEN Append(p, <<zt, ry + RDiv(dy * (zt - rz), dz)>>)
      ELSE p

\* The final propagation of trace_ray: the path of a ray that passed every
\* surface is extended to z_target.
FinalPath(p, completed, rz, ry, dz, dy, zt) ==
    IF completed /\ p # <<>> /\ dz # 0 /\ rz < zt /\ (zt - rz) * dz > 0
      THEN Append(p, <<zt, ry + RDiv(dy * (zt - rz), dz)>>)
      ELSE p

\* A run_trace that keeps every path trace_ray returns.
KeepPath_any(p) == Len(p) >= 1

\* if path and len(path) >= 2: the paths run_trace keeps.
KeepPath(p) == Len(p) >= 2

\* trace_ray returns; run_trace keeps a path of at least two points and goes
\* on to the next ray.
trace_ray_return ==
    /\ pc \in {"surf", "ext"}
    /\ pc = "surf" => i > Len(optical_stack.surfaces)
    /\ LET p == FinalPath(path, completed_all, ray_z, ray_y, ray_dz, ray_dy, z_target)
           last_k == k + 1 >= NumRays(optical_stack)
       IN  /\ path' = p
           /\ returned' = Append(returned, p)
           /\ IF KeepPath(p)
                THEN /\ rays' = Append(rays, p)
                     /\ ray_field_indices' = Append(ray_field_indices, fld_idx - 1)
                     /\ ray_power' = Append(ray_power, RAY_POWER)
                ELSE UNCHANGED <<rays, ray_field_indices, ray_power>>
           /\ k' = IF last_k THEN 0 ELSE k + 1
           /\ fld_idx' = IF last_k THEN fld_idx + 1 ELSE fld_idx
    /\ pc' = "fan"
    /\ UNCHANGED <<optical_stack, cumulative_z, z_target, ray_z, ray_y, ray_dz, ray_dy,
                   n_before, i, completed_all, idx_used, dir_out, termination_log,
                   refraction_log, traced, result, service_vars>>

\* After the ray fan: the "No rays traced" error when no ray was kept, the
\* trace result otherwise.
run_trace_finish ==
    /\ pc = "fan"
    /\ fld_idx > Len(FieldAngles(optical_stack))
    /\ result' = [error |-> IF rays = <<>> THEN "No rays traced" ELSE "none",
                  rays |-> rays, rayFieldIndices |-> ray_field_indices,
                  rayPower |-> ray_power, terminationLog |-> termination_log,
                  refractionLog |-> refraction_log]
    /\ pc' = "done"
    /\ UNCHANGED <<optical_stack, cumulative_z, z_target, fld_idx, k, ray_z, ray_y,
                   ray_dz, ray_dy, n_before, path, i, completed_all, idx_used, dir_out,
                   rays, ray_field_indices, ray_power, termination_log, refraction_log,
                   traced, returned, service_vars>>

(***************************************************************************)
(* Coating library (backend/coating_engine.py), reflectivity in            *)
(* 1/PowerScale at the wavelengths of the model.                           *)
(***************************************************************************)
\* _COATINGS.get(name): known is FALSE for a missing key.
COATINGS(name, wvl_nm) ==
    CASE name = "None"           -> [known |-> TRUE, r |-> 40, is_hr |-> FALSE]
      [] name = "MgF2"           -> [known |-> TRUE, r |-> 13, is_hr |-> FALSE]
      [] name = "Protected Gold" -> [known |-> TRUE, r |-> 980, is_hr |-> FALSE]
      [] name = "HR"             -> [known |-> TRUE, r |-> 995, is_hr |-> TRUE]
      [] OTHER                   -> [known |-> FALSE, r |-> 40, is_hr |-> FALSE]

get_reflectivity(coating_name, wvl_nm) ==
    IF Strip(coating_name) = "" THEN COATINGS("None", wvl_nm).r
    ELSE COATINGS(Strip(coating_name), wvl_nm).r

is_hr_coating(coating_name) ==
    IF Strip(coating_name) = "" THEN FALSE
    ELSE COATINGS(Strip(coating_name), DEFAULT_WVL).known
           /\ COATINGS(Strip(coating_name), DEFAULT_WVL).is_hr

(***************************************************************************)
(* Properties of trace_ray and run_trace (pyodide).                        *)
(***************************************************************************)
\* The state right after trace_ray returned a path to run_trace.
Returned == pc = "fan" /\ traced > 0

\* The hit points trace_ray recorded for the current ray.
HitPoints == [j \in 1..Len(idx_used) |-> <<idx_used[j].z, idx_used[j].y>>]

\* C1: a ray that terminated at a surface is never extended.  The path that
\* trace_ray returns for it is the ray origin followed by the hit points
\* recorded before the termination and nothing else; a path has a point after
\* its hit points only when the ray passed every surface, and that point is
\* the extension at z_target.
C1_TerminatedNotExtended ==
    Returned =>
        /\ path[1][1] = RAY_START_Z
        /\ SubSeq(path, 2, Len(idx_used) + 1) = HitPoints
        /\ ~completed_all => Len(path) = Len(idx_used) + 1
        /\ Len(path) > Len(idx_used) + 1 =>
              /\ completed_all
              /\ Len(path) = Len(idx_used) + 2
              /\ path[Len(path)][1] = z_target

\* A ray that hit a surface, terminated at a later one while still heading
\* for z_target, and was returned.
C1_Witness ==
    /\ Returned
    /\ ~completed_all
    /\ Len(idx_used) >= 1
    /\ ray_dz > 0
    /\ ray_z < z_target
    /\ Len(path) = Len(idx_used) + 1

\* C2: every hit point recorded in the path lies within the semi-diameter of
\* its surface, and a hit beyond the semi-diameter ends the ray without being
\* recorded.
C2_HitsWithinAperture ==
    /\ Len(path) >= Len(idx_used) + 1 \/ path = <<>>
    /\ \A j \in 1..Len(idx_used) :
         2 * Abs(path[j + 1][2]) <= DiameterOf(optical_stack.surfaces[idx_used[j].surf])
    /\ (pc = "ext" /\ termination_log # <<>>
          /\ termination_log[Len(termination_log)].reason = TERM_APERTURE
          /\ Len(termination_log) < MAX_TERM_LOG) =>
         /\ ~completed_all
         /\ Len(idx_used) = termination_log[Len(termination_log)].surf - 1
         /\ Len(path) = Len(idx_used) + 1

\* A ray clipped by the aperture of the second surface after a recorded hit on
\* the first.
C2_Witness ==
    /\ pc = "ext"
    /\ termination_log # <<>>
    /\ termination_log[Len(termination_log)] = [reason |-> TERM_APERTURE, surf |-> 2]
    /\ Len(path) = 2

\* C3: along a ray the incident index at the first surface is 1.0, the
\* incident index at every later surface is the index after the surface
\* before it, and the index after the last surface is 1.0.
C3_IndexHandOff ==
    \A j \in 1..Len(idx_used) :
        /\ idx_used[j].surf = j
        /\ j = 1 => idx_used[j].n1 = AIR_INDEX
        /\ j > 1 => idx_used[j].n1 = idx_used[j - 1].n2
        /\ j = Len(optical_stack.surfaces) => idx_used[j].n2 = AIR_INDEX

\* A ray that crossed two surfaces, was inside glass between them, and whose
\* last surface stores the index of a glass.
C3_Witness ==
    /\ Len(idx_used) = 2
    /\ Len(optical_stack.surfaces) = 2
    /\ idx_used[1].n2 > AIR_INDEX
    /\ get_n(optical_stack.surfaces[2], DEFAULT_WVL) > AIR_INDEX
    /\ LowerStrip(optical_stack.surfaces[2].type) # "air"

\* The paths among ps that run_trace keeps.
RECURSIVE Kept(_)
Kept(ps) ==
    IF ps = <<>> THEN <<>>
    ELSE IF Len(Head(ps)) >= 2 THEN <<Head(ps)>> \o Kept(Tail(ps))
    ELSE Kept(Tail(ps))

Reflected(vx, vy, nx, ny) ==
    LET d == RDiv(vx * nx + vy * ny, DirScale)
    IN  <<vx - RDiv(2 * d * nx, DirScale), vy - RDiv(2 * d * ny, DirScale)>>

\* C6: at a surface with an HR coating trace_ray leaves the surface in the
\* direction of the incident ray reflected about the surface normal.
C6_HRReflects ==
    (dir_out.surf > 0 /\ ~dir_out.tir
        /\ is_hr_coating(optical_stack.surfaces[dir_out.surf].coating)) =>
      <<dir_out.dz, dir_out.dy>> = Reflected(dir_out.vx, dir_out.vy, dir_out.nx, dir_out.ny)

\* C7: the z-values of the path returned for a ray that passed every surface
\* never decrease from one point to the next.
C7_MonotoneZ ==
    (Returned /\ completed_all) =>
      \A j \in 1..(Len(path) - 1) : path[j][1] <= path[j + 1][1]

\* Product over the crossed surfaces of R for an HR surface and of 1 - R for
\* any other surface, in 1/PowerScale.
RECURSIVE PowerProduct(_, _, _)
PowerProduct(surfaces, crossed, wvl_nm) ==
    IF crossed = <<>> THEN PowerScale
    ELSE LET s == surfaces[crossed[Len(crossed)].surf]
             r == get_reflectivity(s.coating, wvl_nm)
             f == IF is_hr_coating(s.coating) THEN r ELSE PowerScale - r
         IN  RDiv(PowerProduct(surfaces, SubSeq(crossed, 1, Len(crossed) - 1), wvl_nm) * f,
                  PowerScale)

\* C8: the rayPower of a returned ray that passed every surface is the
\* product over the surfaces it crossed of R (reflective surface) or 1 - R
\* (transmissive surface).
C8_PowerIsProduct ==
    (Returned /\ completed_all /\ KeepPath(path)) =>
      ray_power[Len(ray_power)] =
        PowerProduct(optical_stack.surfaces, idx_used, optical_stack.wavelengths[1])

(***************************************************************************)
(* Backend service (backend/trace_service.py): optical_stack_to_surf_data. *)
(***************************************************************************)
\* _build_name_index(): the glass library by lowercase name with its aliases.
NAME_INDEX(key) ==
    CASE key \in {"n-bk7", "bk7"}   -> [formula |-> "sellmeier", coeffs |-> "n-bk7"]
      [] key \in {"n-sf11", "sf11"} -> [formula |-> "sellmeier", coeffs |-> "n-sf11"]
      [] OTHER                      -> [formula |-> "none", coeffs |-> "none"]

refractive_index_at_wavelength(lambda_nm, material_name, refractive_index_fallback) ==
    IF LowerStrip(material_name) = "" THEN refractive_index_fallback
    ELSE IF refractive_index_fallback <= 1001 THEN AIR_INDEX
    ELSE IF NAME_INDEX(LowerStrip(material_name)).formula = "sellmeier"
      THEN n_from_sellmeier(lambda_nm, NAME_INDEX(LowerStrip(material_name)).coeffs)
    ELSE refractive_index_fallback

\* 1.0 / r if r != 0 else 0.0, in 1/CurvScale per millimetre.
Curvature(r) == IF r # 0 THEN RDiv(CurvScale, r) ELSE 0

\* One row [curvature, thickness, n, v] of surf_data_list; medium is "REFL"
\* for a mirror row, whose third entry is the string 'REFL' instead of n.
SurfRow(s, wvl_nm) ==
    IF is_hr_coating(s.coating)
      THEN [curvature |-> Curvature(s.radius), thickness |-> s.thickness,
            medium |-> "REFL", n |-> 0, v |-> 0]
      ELSE LET n_fallback == IF s.refractiveIndex = 0 THEN AIR_INDEX ELSE s.refractiveIndex
               n == IF s.sellmeierCoefficients # "none"
                      THEN n_from_sellmeier(wvl_nm, s.sellmeierCoefficients)
                      ELSE refractive_index_at_wavelength(wvl_nm, s.material, n_fallback)
           IN  [curvature |-> Curvature(s.radius), thickness |-> s.thickness,
                medium |-> "n", n |-> n,
                v |-> IF s.type = "Glass" /\ n > 1010 THEN 642 ELSE 0]

optical_stack_to_surf_data(surfaces, wvl_nm) ==
    [j \in 1..Len(surfaces) |-> SurfRow(surfaces[j], wvl_nm)]

\* A call of optical_stack_to_surf_data.
surf_data_call ==
    /\ called = ""
    /\ called' = "optical_stack_to_surf_data"
    /\ \E surfaces \in SeqsUpTo(SurfaceCatalog, MaxSurfaces), wvl_nm \in Wavelengths :
         /\ surfaces_in' = surfaces
         /\ surf_data' = optical_stack_to_surf_data(surfaces, wvl_nm)
    /\ UNCHANGED <<tracer_vars, ray_data, z_pos, metrics, job_vars>>

NextSurf == surf_data_call

SpecSurf == Init /\ [][NextSurf]_vars

\* The medium after surface s is tagged air.
TaggedAir(s) == LowerStrip(s.material) = "air" \/ LowerStrip(s.type) = "air"

\* C4: for a surface whose medium is tagged air the index after the surface
\* is exactly 1.0 in the row optical_stack_to_surf_data builds for it,
\* whatever refractiveIndex or Sellmeier coefficients the surface stores.
C4_AirIsOne ==
    \A j \in 1..Len(surf_data) :
        (TaggedAir(surfaces_in[j]) /\ surf_data[j].medium # "REFL") =>
            surf_data[j].n = AIR_INDEX

(***************************************************************************)
(* Backend service: get_metrics_at_z.  A ray is a sequence of points       *)
(* <<z, y>> in millimetres; interpolated y, slopes and the metrics are in  *)
(* 1/MetricScale, the chief ray angle in degrees.                          *)
(***************************************************************************)
RECURSIVE ZMin(_)
ZMin(ray) == IF Len(ray) = 1 THEN ray[1][1] ELSE Min(ray[1][1], ZMin(Tail(ray)))

RECURSIVE ZMax(_)
ZMax(ray) == IF Len(ray) = 1 THEN ray[1][1] ELSE Max(ray[1][1], ZMax(Tail(ray)))

\* (y, slope) at z on the segment from p to q, y counted from the point b:
\* slope = dy / dz if abs(dz) > 1e-12 else 0.0; y = b.y + slope * (z - b.z).
OnSegment(p, q, b, z) ==
    LET dz == q[1] - p[1]
        dy == q[2] - p[2]
    IN  IF dz = 0
          THEN [y |-> Some(b[2] * MetricScale), slope |-> Some(0)]
          ELSE [y |-> Some(b[2] * MetricScale + RDiv(MetricScale * dy * (z - b[1]), dz)),
                slope |-> Some(RDiv(MetricScale * dy, dz))]

\* for i in range(len(pts) - 1): the first segment from kk on with z0 <= z <= z1.
RECURSIVE SegmentScan(_, _, _)
SegmentScan(ray, z, kk) ==
    IF kk >= Len(ray) THEN [y |-> None, slope |-> None]
    ELSE IF ray[kk][1] <= z /\ z <= ray[kk + 1][1] THEN OnSegment(ray[kk], ray[kk + 1], ray[kk], z)
    ELSE SegmentScan(ray, z, kk + 1)

_interpolate_ray_at_z(ray, z) ==
    IF Len(ray) < 2 THEN [y |-> None, slope |-> None]
    ELSE IF z <= ZMin(ray) THEN OnSegment(ray[1], ray[2], ray[1], z)
    ELSE IF z >= ZMax(ray)
      THEN OnSegment(ray[Len(ray) - 1], ray[Len(ray)], ray[Len(ray)], z)
    ELSE SegmentScan(ray, z, 1)

RECURSIVE SumSquares(_)
SumSquares(ys) == IF ys = <<>> THEN 0 ELSE Head(ys) * Head(ys) + SumSquares(Tail(ys))

RECURSIVE SeqMin(_)
SeqMin(ys) == IF Len(ys) = 1 THEN ys[1] ELSE Min(ys[1], SeqMin(Tail(ys)))

RECURSIVE SeqMax(_)
SeqMax(ys) == IF Len(ys) = 1 THEN ys[1] ELSE Max(ys[1], SeqMax(Tail(ys)))

\* sqrt(max(0, mean(y^2) - mean(y)^2))
_rms_radius(y_vals) ==
    IF y_vals = <<>> THEN None
    ELSE LET mean_y2 == RDiv(SumSquares(y_vals), Len(y_vals))
             mean_y  == RDiv(SeqSum(y_vals), Len(y_vals))
         IN  Some(ISqrt(Max(0, mean_y2 - mean_y * mean_y)))

\* np.degrees(np.arctan(slope)) rounded to whole degrees, for a slope in
\* 1/MetricScale: atan x = x / (1 + 0.28 x^2) for |x| <= 1 and
\* 90 - atan(1 / x) beyond.
AtanDegUnit(sl) == RDiv(572958 * sl, 1000000 + 28 * sl * sl)
AtanDeg(sl) ==
    IF Abs(sl) <= MetricScale THEN AtanDegUnit(sl)
    ELSE IF sl > 0 THEN 90 - AtanDegUnit(RDiv(MetricScale * MetricScale, sl))
    ELSE -90 - AtanDegUnit(RDiv(MetricScale * MetricScale, sl))

\* abs(ray_data[i][0][1]) if ray_data[i] else float("inf"); -1 stands for inf.
PupilHeight(ray) == IF ray = <<>> THEN -1 ELSE Abs(ray[1][2])

HeightLess(a, b) == a # -1 /\ (b = -1 \/ a < b)

\* min(range(len(ray_data)), key=...): the first index of the smallest key
\* among the rays from index kk on, best being the best index before kk.
RECURSIVE ChiefScan(_, _, _)
ChiefScan(rs, kk, best) ==
    IF kk > Len(rs) THEN best
    ELSE IF HeightLess(PupilHeight(rs[kk]), PupilHeight(rs[best]))
      THEN ChiefScan(rs, kk + 1, kk)
    ELSE ChiefScan(rs, kk + 1, best)

\* The interpolated y of the rays from index kk on that yield a sample at z.
RECURSIVE Interpolated(_, _, _)
Interpolated(rs, z, kk) ==
    IF kk > Len(rs) THEN <<>>
    ELSE IF _interpolate_ray_at_z(rs[kk], z).y = None THEN Interpolated(rs, z, kk + 1)
    ELSE _interpolate_ray_at_z(rs[kk], z).y \o Interpolated(rs, z, kk + 1)

\* The result of get_metrics_at_z for the samples y_vals and the slope of
\* the chief ray.
MetricsOf(y_vals, chief_slope) ==
    IF y_vals = <<>> THEN NoMetrics
    ELSE [rmsRadius |-> _rms_radius(y_vals),
          beamWidth |-> Some(SeqMax(y_vals) - SeqMin(y_vals)),
          chiefRayAngle |-> IF chief_slope = None THEN None
                            ELSE Some(AtanDeg(chief_slope[1])),
          yCentroid |-> Some(RDiv(SeqSum(y_vals), Len(y_vals))),
          numRays |-> Len(y_vals)]

get_metrics_at_z(z, rs) ==
    IF rs = <<>> THEN NoMetrics
    ELSE MetricsOf(Interpolated(rs, z, 1),
                   _interpolate_ray_at_z(rs[ChiefScan(rs, 2, 1)], z).slope)

RayCatalog ==
    { << <<0, -1>>, <<20, -1>> >>,
      << <<0, 0>>, <<20, 0>> >>,
      << <<0, 1>>, <<20, 1>> >>,
      << <<0, 0>>, <<10, 2>> >>,
      << <<-10, 5>>, <<0, 5>>, <<5, 5>>, <<57, 0>> >>,
      << <<-10, -5>>, <<0, -5>> >>,
      << <<0, 0>> >>,
      << <<10, 0>>, <<0, 1>> >>,
      << >> }

ZPositions == {-20, 0, 5, 8, 10, 30, 57, 60}

\* A call of get_metrics_at_z.
metrics_call ==
    /\ called = ""
    /\ called' = "get_metrics_at_z"
    /\ \E rs \in SeqsUpTo(RayCatalog, MaxRayData), z \in ZPositions :
         /\ ray_data' = rs
         /\ z_pos' = z
         /\ metrics' = get_metrics_at_z(z, rs)
    /\ UNCHANGED <<tracer_vars, surfaces_in, surf_data, job_vars>>

NextMetrics == metrics_call

SpecMetrics == Init /\ [][NextMetrics]_vars

\* The polyline of the ray spans z: the ray has a segment and z lies between
\* the smallest and the largest z of its points.
Spans(ray, z) == Len(ray) >= 2 /\ ZMin(ray) <= z /\ z <= ZMax(ray)

\* The rays of rs that yield a sample at z.
Sampled(rs, z) == {j \in 1..Len(rs) : _interpolate_ray_at_z(rs[j], z).y # None}

\* C9: the metrics at z aggregate only the rays whose polyline spans z: every
\* ray get_metrics_at_z counts in numRays spans z.
C9_OnlySpanningRays ==
    /\ metrics.numRays = Cardinality(Sampled(ray_data, z_pos))
    /\ \A j \in Sampled(ray_data, z_pos) : Spans(ray_data[j], z_pos)

\* C10: get_metrics_at_z returns the no-data result exactly when no ray
\* yields a sample at z, and otherwise a result whose four metrics are all
\* non-null and whose numRays is the number of rays that yielded a sample.
C10_AllOrNothing ==
    IF Sampled(ray_data, z_pos) = {}
      THEN metrics = NoMetrics
      ELSE /\ metrics.rmsRadius # None
           /\ metrics.beamWidth # None
           /\ metrics.chiefRayAngle # None
           /\ metrics.yCentroid # None
           /\ metrics.numRays = Cardinality(Sampled(ray_data, z_pos))

(***************************************************************************)
(* Backend service: best focus.  The search interval [z_a, z_b] moves on a  *)
(* grid of 1/SearchScale mm with tol one grid step; the midpoint it        *)
(* returns and every z at which the objective is evaluated are in          *)
(* 1/FocusScale mm, half a grid step; float("inf") is INF.                 *)
(***************************************************************************)
\* The rays with every z in 1/FocusScale mm.
FocusGrid(rs) ==
    [r \in 1..Len(rs) |-> [q \in 1..Len(rs[r]) |-> <<FocusScale * rs[r][q][1], rs[r][q][2]>>]]

\* float(r) if r is not None else float("inf"), for every field.
_rms_per_field_at_z(rbf, z) ==
    [f \in 1..Len(rbf) |->
        IF get_metrics_at_z(z, FocusGrid(rbf[f])).rmsRadius = None THEN INF
        ELSE get_metrics_at_z(z, FocusGrid(rbf[f])).rmsRadius[1]]

\* total of w * rms^2 over the first kk fields with rms < 1e10 and w > 0.
RECURSIVE WeightedTotal(_, _, _)
WeightedTotal(rms_per_field, weights, kk) ==
    IF kk = 0 THEN 0
    ELSE WeightedTotal(rms_per_field, weights, kk - 1)
           + (IF rms_per_field[kk] < INF /\ weights[kk] > 0
                THEN RDiv(weights[kk] * rms_per_field[kk] * rms_per_field[kk], WeightScale)
                ELSE 0)

\* zip(rms_per_field, weights) stops at the shorter list.
_global_weighted_rms(rms_per_field, weights) ==
    LET total == WeightedTotal(rms_per_field, weights,
                               Min(Len(rms_per_field), Len(weights)))
    IN  IF total > 0 THEN ISqrt(total) ELSE INF

\* The weights of _best_focus_golden_section, in 1/WeightScale.
FocusWeights(n_fields, mode) ==
    IF mode = "On-Axis"
      THEN IF n_fields = 0 THEN <<WeightScale>>
           ELSE [f \in 1..n_fields |-> IF f = 1 THEN WeightScale ELSE 0]
      ELSE [f \in 1..n_fields |-> RDiv(WeightScale, Max(1, n_fields))]

\* objective(z) of _best_focus_golden_section, z in 1/FocusScale mm.
objective(rbf, mode, z) ==
    _global_weighted_rms(_rms_per_field_at_z(rbf, z), FocusWeights(Len(rbf), mode))

\* (z_b - z_a) / phi
GoldenStep(width) == RDiv(width * 1000, 1618)

\* The rays of all fields in one list.
RECURSIVE Flatten(_)
Flatten(rbf) == IF rbf = <<>> THEN <<>> ELSE Head(rbf) \o Flatten(Tail(rbf))

FieldCatalog ==
    { << >>,
      << << <<0, 2>>, <<20, 2>> >> >>,
      << << <<0, -2>>, <<10, 0>> >>, << <<0, 0>>, <<10, 0>> >>, << <<0, 2>>, <<12, 0>> >> >>,
      << << <<0, -1>>, <<10, -3>> >>, << <<0, 1>>, <<10, 3>> >> >>,
      << << <<0, 3>>, <<10, 1>> >>, << <<0, 1>>, <<10, 3>> >> >> }

BracketEnds == {0, 4, 9, 16}

\* run_trace from "Best Focus" on: the search runs when there are rays and
\* the bracket is not empty, otherwise best_focus_z is focus_z.
best_focus_begin ==
    /\ fpc = "idle"
    /\ \E rbf \in SeqsUpTo(FieldCatalog, MaxFocusFields), mode \in {"On-Axis", "Balanced"},
          lo \in BracketEnds, hi \in BracketEnds :
         /\ rays_by_field' = rbf
         /\ focus_mode' = mode
         /\ last_lens_z' = lo
         /\ focus_z' = hi
         /\ IF Flatten(rbf) # <<>> /\ lo < hi
              THEN /\ fpc' = "golden"
                   /\ searched' = TRUE
                   /\ z_a' = SearchScale * lo /\ z_b' = SearchScale * hi
                   /\ best_focus_z' = 0 /\ best_rms' = 0
              ELSE /\ fpc' = "done"
                   /\ searched' = FALSE
                   /\ z_a' = 0 /\ z_b' = 0
                   /\ best_focus_z' = FocusScale * hi /\ best_rms' = 0
    /\ iter' = 0
    /\ UNCHANGED <<not_focus_vars>>

\* One pass of the golden-section loop.
golden_section_step ==
    /\ fpc = "golden"
    /\ iter < MAX_ITER
    /\ z_b - z_a > FOCUS_TOL
    /\ IF objective(rays_by_field, focus_mode, 2 * (z_b - GoldenStep(z_b - z_a)))
            < objective(rays_by_field, focus_mode, 2 * (z_a + GoldenStep(z_b - z_a)))
         THEN z_b' = z_a + GoldenStep(z_b - z_a) /\ z_a' = z_a
         ELSE z_a' = z_b - GoldenStep(z_b - z_a) /\ z_b' = z_b
    /\ iter' = iter + 1
    /\ UNCHANGED <<not_focus_vars, fpc, rays_by_field, focus_mode, last_lens_z,
                   focus_z, searched, best_focus_z, best_rms>>

\* The loop ends: z_mid = (z_a + z_b) / 2 and objective(z_mid) are returned.
golden_section_return ==
    /\ fpc = "golden"
    /\ iter >= MAX_ITER \/ z_b - z_a <= FOCUS_TOL
    /\ best_focus_z' = z_a + z_b
    /\ best_rms' = objective(rays_by_field, focus_mode, z_a + z_b)
    /\ fpc' = "done"
    /\ UNCHANGED <<not_focus_vars, rays_by_field, focus_mode, last_lens_z,
                   focus_z, z_a, z_b, iter, searched>>

NextFocus ==
    \/ best_focus_begin
    \/ golden_section_step
    \/ golden_section_return

SpecFocus == Init /\ [][NextFocus]_vars

\* The fields of rbf that have valid rays at z.
ValidFields(rbf, z) == {f \in 1..Len(rbf) : _rms_per_field_at_z(rbf, z)[f] # INF}

\* w = [1, 0, ..., 0] in On-Axis mode and 1/n for every field in Balanced mode.
StatedWeight(n_fields, mode, f) ==
    IF mode = "On-Axis" THEN (IF f = 1 THEN WeightScale ELSE 0)
    ELSE RDiv(WeightScale, n_fields)

RECURSIVE StatedTotal(_, _, _, _)
StatedTotal(rbf, mode, z, kk) ==
    IF kk = 0 THEN 0
    ELSE StatedTotal(rbf, mode, z, kk - 1)
           + (IF kk \in ValidFields(rbf, z)
                THEN RDiv(StatedWeight(Len(rbf), mode, kk) * _rms_per_field_at_z(rbf, z)[kk]
                            * _rms_per_field_at_z(rbf, z)[kk], WeightScale)
                ELSE 0)

\* sqrt(sum of w_i * RMS_i(z)^2) over the fields with valid rays at z, and
\* infinite when no field with a positive weight has valid rays.
StatedObjective(rbf, mode, z) ==
    IF \A f \in ValidFields(rbf, z) : StatedWeight(Len(rbf), mode, f) = 0 THEN INF
    ELSE ISqrt(StatedTotal(rbf, mode, z, Len(rbf)))

\* C11: the best-focus objective at z is sqrt(sum of w_i * RMS_i(z)^2) over
\* the fields with valid rays at z, with w = [1, 0, ..., 0] in On-Axis mode
\* and w_i = 1/n in Balanced mode, for every per-field RMS including 0.
C11_WeightedObjective ==
    (fpc = "done" /\ searched) =>
        best_rms = StatedObjective(rays_by_field, focus_mode, best_focus_z)

\* C12: the focus search returns a z inside the bracket whose objective is at
\* most the objective at either end of the bracket.
C12_FocusWithinBracket ==
    (fpc = "done" /\ searched) =>
        /\ FocusScale * last_lens_z <= best_focus_z
        /\ best_focus_z <= FocusScale * focus_z
        /\ best_rms <= objective(rays_by_field, focus_mode, FocusScale * last_lens_z)
        /\ best_rms <= objective(rays_by_field, focus_mode, FocusScale * focus_z)

\* The bracket holds no valid sample: no rays, an empty or inverted bracket,
\* or no field with a positive weight has valid rays at any z of the bracket.
NoValidSample ==
    \/ Flatten(rays_by_field) = <<>>
    \/ last_lens_z >= focus_z
    \/ \A z \in (FocusScale * last_lens_z)..(FocusScale * focus_z) :
          StatedObjective(rays_by_field, focus_mode, z) = INF

\* C13: when the bracket of the focus search holds no valid sample, the best
\* focus run_trace reports is the paraxial focus estimate focus_z.
C13_FallsBackToFocusZ ==
    (fpc = "done" /\ NoValidSample) => best_focus_z = FocusScale * focus_z

(***************************************************************************)
(* run_chromatic_shift (backend/trace_service.py and pyodide/trace.py).    *)
(*                                                                         *)
(* Wavelengths are Python floats.  A float is modelled as a binary         *)
(* floating-point number with a mantissa of MantissaBits bits, written as  *)
(* a whole number of units of the finest step; every sum is rounded to the *)
(* nearest such number, ties to the even mantissa, as IEEE 754 does.       *)
(***************************************************************************)
MantissaBits == 3
MaxWavelengths == 8

RECURSIVE Pow2(_)
Pow2(n) == IF n <= 0 THEN 1 ELSE 2 * Pow2(n - 1)

RECURSIVE BitLen(_)
BitLen(n) == IF n <= 0 THEN 0 ELSE 1 + BitLen(n \div 2)

\* n rounded to a multiple of q, a tie going to the even multiple.
RoundToEven(n, q) ==
    IF 2 * (n % q) < q THEN n - (n % q)
    ELSE IF 2 * (n % q) > q THEN n - (n % q) + q
    ELSE IF (n \div q) % 2 = 0 THEN n - (n % q) ELSE n - (n % q) + q

\* The float nearest to n.
Fl(n) ==
    IF Abs(n) < Pow2(MantissaBits) THEN n
    ELSE IF n < 0 THEN -RoundToEven(-n, Pow2(BitLen(-n) - MantissaBits))
    ELSE RoundToEven(n, Pow2(BitLen(n) - MantissaBits))

\* w += wavelength_step_nm
FloatAdd(a, b) == Fl(a + b)

\* A coefficient set "pole" has C[0] = (PoleWavelength * 1e-3) ** 2: at that
\* wavelength lam2 - C[0] is 0.0 and the division raises ZeroDivisionError.
PoleWavelength == 12

n_from_sellmeier_raises(lambda_nm, coeffs) ==
    coeffs = "pole" /\ lambda_nm = PoleWavelength

\* optical_stack_to_surf_data(surfaces, wvl_nm) raises: a surface that is
\* not an HR mirror computes its index from its own coefficients.
surf_data_raises(surfaces, wvl_nm) ==
    \E s \in 1..Len(surfaces) :
        /\ ~is_hr_coating(surfaces[s].coating)
        /\ n_from_sellmeier_raises(wvl_nm, surfaces[s].sellmeierCoefficients)

\* trace_ray(...) of the in-browser tracer raises: get_n of the first
\* surface the rays meet evaluates the same sum.
trace_ray_raises(surfaces, wvl_nm) ==
    /\ surfaces # <<>>
    /\ LowerStrip(surfaces[1].material) # "air"
    /\ LowerStrip(surfaces[1].type) # "air"
    /\ n_from_sellmeier_raises(wvl_nm, surfaces[1].sellmeierCoefficients)

ChromaStacks ==
    { <<>>,
      << Surface("Glass", 50, 5, 1517, 25, "N-BK7", "", "none"),
         Surface("Air", -50, 95, 1000, 25, "Air", "", "none") >>,
      << Surface("Glass", 50, 5, 1517, 25, "N-BK7", "", "pole"),
         Surface("Air", -50, 95, 1000, 25, "Air", "", "none") >>,
      << Surface("Glass", 50, 5, 1517, 25, "N-BK7", "HR", "pole"),
         Surface("Air", -50, 95, 1000, 25, "Air", "", "none") >> }

WavelengthMins == {0, 8, 20}
WavelengthMaxs == {6, 12, 20}
WavelengthSteps == {-3, 0, 3, 4}

\* What the per-wavelength computation does at one wavelength of the sweep:
\* the lens model gives no finite BFL ("nan") or raises ("exception"); in
\* the browser no ray reaches the image ("nan").
Faults(implementation) ==
    {None} \cup { Some([wavelength |-> fw, kind |-> fk]) :
                    fw \in {8, 12, 20},
                    fk \in IF implementation = "backend"
                             THEN {"nan", "exception"} ELSE {"nan"} }

FaultAt(flt, wvl_nm) == flt # None /\ flt[1].wavelength = wvl_nm

Entry(wvl_nm, focus_shift) == [wavelength |-> wvl_nm, focus_shift |-> focus_shift]

chromatic_shift_begin ==
    /\ cpc = "idle"
    /\ \E im \in {"backend", "pyodide"}, st \in ChromaStacks,
          lo \in WavelengthMins, hi \in WavelengthMaxs, step \in WavelengthSteps :
          \E flt \in Faults(im) :
            /\ impl' = im
            /\ chroma_surfaces' = st
            /\ wavelength_min_nm' = lo
            /\ wavelength_max_nm' = hi
            /\ wavelength_step_nm' = step
            /\ fault' = flt
            /\ w' = lo
            /\ cpc' = IF st = <<>> THEN "returned" ELSE "wavelengths"
    /\ UNCHANGED <<not_chroma_vars, spin, wavelengths, wi, shift>>

\* while w <= wavelength_max_nm: wavelengths.append(w); w += wavelength_step_nm
chromatic_shift_wavelength ==
    /\ cpc = "wavelengths"
    /\ w <= wavelength_max_nm
    /\ IF Len(wavelengths) < MaxWavelengths
         THEN /\ wavelengths' = Append(wavelengths, w)
              /\ w' = FloatAdd(w, wavelength_step_nm)
              /\ spin' = spin
         ELSE /\ wavelengths' = wavelengths
              /\ w' = IF wavelength_step_nm > 0 THEN FloatAdd(w, wavelength_step_nm)
                                                ELSE w
              /\ spin' = ~spin
    /\ UNCHANGED <<not_chroma_vars, cpc, impl, chroma_surfaces, wavelength_min_nm,
                   wavelength_max_nm, wavelength_step_nm, fault, wi, shift>>

chromatic_shift_sweep ==
    /\ cpc = "wavelengths"
    /\ w > wavelength_max_nm
    /\ cpc' = "sweep"
    /\ UNCHANGED <<not_chroma_vars, spin, impl, chroma_surfaces, wavelength_min_nm,
                   wavelength_max_nm, wavelength_step_nm, fault, w, wavelengths, wi,
                   shift>>

\* One pass of "for wvl_nm in wavelengths".
SweepRaises(implementation, surfaces, wvl_nm) ==
    IF implementation = "backend" THEN surf_data_raises(surfaces, wvl_nm)
    ELSE trace_ray_raises(surfaces, wvl_nm)

chromatic_shift_entry ==
    /\ cpc = "sweep"
    /\ wi <= Len(wavelengths)
    /\ IF SweepRaises(impl, chroma_surfaces, wavelengths[wi])
         THEN cpc' = "raised" /\ UNCHANGED <<wi, shift>>
         ELSE /\ shift' = Append(shift,
                     Entry(wavelengths[wi],
                           IF FaultAt(fault, wavelengths[wi]) THEN "nan" ELSE "bfl"))
              /\ wi' = wi + 1
              /\ UNCHANGED cpc
    /\ UNCHANGED <<not_chroma_vars, spin, impl, chroma_surfaces, wavelength_min_nm,
                   wavelength_max_nm, wavelength_step_nm, fault, w, wavelengths>>

chromatic_shift_return ==
    /\ cpc = "sweep"
    /\ wi > Len(wavelengths)
    /\ cpc' = "returned"
    /\ UNCHANGED <<not_chroma_vars, spin, impl, chroma_surfaces, wavelength_min_nm,
                   wavelength_max_nm, wavelength_step_nm, fault, w, wavelengths, wi,
                   shift>>

NextChroma ==
    \/ chromatic_shift_begin
    \/ chromatic_shift_wavelength
    \/ chromatic_shift_sweep
    \/ chromatic_shift_entry
    \/ chromatic_shift_return

SpecChroma == Init /\ [][NextChroma]_vars

\* The wavelengths min, min + step, ... that do not exceed max.
StatedCount(lo, hi, step) == IF lo > hi THEN 0 ELSE (hi - lo) \div step + 1

\* C14: for a positive step and min <= max the list run_chromatic_shift
\* returns has floor((max - min) / step) + 1 entries, entry j for the
\* wavelength min + (j - 1) * step (the float nearest to it), finite focus
\* or not; without surfaces the list is empty.
C14_OneEntryPerWavelength ==
    (cpc = "returned" /\ wavelength_step_nm > 0
       /\ wavelength_min_nm <= wavelength_max_nm) =>
        IF chroma_surfaces = <<>> THEN shift = <<>>
        ELSE /\ Len(shift) = StatedCount(wavelength_min_nm, wavelength_max_nm,
                                         wavelength_step_nm)
             /\ \A j \in 1..Len(shift) :
                   shift[j].wavelength =
                       Fl(wavelength_min_nm + (j - 1) * wavelength_step_nm)

\* C15: run_chromatic_shift never raises: a wavelength whose computation
\* fails gets the entry NaN and the sweep goes on to the next wavelength.
C15_NeverRaises == cpc # "raised"

(***************************************************************************)
(* run_monte_carlo (backend/monte_carlo_service.py).                       *)
(*                                                                         *)
(* Lengths are whole numbers of 1/MicroScale mm.  A dict is a cell of      *)
(* dicts, named by its position; dict(s) adds a cell.  The generator       *)
(* random.Random is a congruential generator with RngStates states.        *)
(***************************************************************************)
MicroScale == 10 * 10 * 10
RngStates == 4 * 4
SpotRange == 10 * 10
SEED == 42
MIN_THICKNESS == 10
SENSITIVITY_ITERATIONS == 20
MaxCalls == 3

McSurface(radius, thickness, radiusTolerance, thicknessTolerance, material) ==
    [radius |-> radius, thickness |-> thickness, radiusTolerance |-> radiusTolerance,
     thicknessTolerance |-> thicknessTolerance, material |-> material]

\* random.Random(seed), the generator after one draw, and
\* rng.uniform(-tol, tol) = a + (b - a) * random() with random() in [0, 1).
Seeded(seed) == seed % RngStates
Advance(g) == (5 * g + 3) % RngStates
uniform(g, tol) == -tol + (2 * tol * Advance(g)) \div RngStates

NewGenerator_unseeded(e) == Seeded(e)

\* rng = random.Random(42)
NewGenerator(e) == Seeded(SEED)

dict_copy_alias(ds, ref) == ref

\* dict(s): the new dict is the cell after the last one.
dict_copy(ds, ref) == Len(ds) + 1

Skipped_never(only_surface_idx, si) == FALSE

\* only_surface_idx is not None and i != only_surface_idx
Skipped(only_surface_idx, si) == only_surface_idx # None /\ si # only_surface_idx[1]

Heap(ds, g) == [dicts |-> ds, rng |-> g]

\* if r_tol > 0: surf["radius"] = float(s["radius"]) + rng.uniform(-r_tol, r_tol)
RadiusWrite(ds, g, s, ref) ==
    IF s.radiusTolerance > 0
      THEN Heap([ds EXCEPT ![ref].radius = s.radius + uniform(g, s.radiusTolerance)],
                Advance(g))
      ELSE Heap(ds, g)

\* if t_tol > 0: surf["thickness"] = max(0.01, float(s["thickness"]) + rng.uniform(...))
ThicknessWrite(h, s, ref) ==
    IF s.thicknessTolerance > 0
      THEN Heap([h.dicts EXCEPT ![ref].thickness =
                    Max(MIN_THICKNESS,
                        s.thickness + uniform(h.rng, s.thicknessTolerance))],
                Advance(h.rng))
      ELSE h

RECURSIVE JitterFrom(_, _, _, _, _, _)

JitterNext(si, n, h, out, only_surface_idx) ==
    JitterFrom(si + 1, n, h.dicts, h.rng, out, only_surface_idx)

\* The loop of _jitter_surfaces from surface si on; out holds the dicts
\* appended to jittered so far.
JitterFrom(si, n, ds, g, out, only_surface_idx) ==
    IF si > n THEN [dicts |-> ds, rng |-> g, out |-> out]
    ELSE IF Skipped(only_surface_idx, si)
      THEN JitterFrom(si + 1, n, Append(ds, ds[si]), g,
                      Append(out, dict_copy(ds, si)), only_surface_idx)
    ELSE JitterNext(si, n,
                    ThicknessWrite(RadiusWrite(Append(ds, ds[si]), g, ds[si],
                                               dict_copy(ds, si)),
                                   ds[si], dict_copy(ds, si)),
                    Append(out, dict_copy(ds, si)), only_surface_idx)

_jitter_surfaces(ds, n, g, only_surface_idx) ==
    JitterFrom(1, n, ds, g, <<>>, only_surface_idx)

\* The dicts a list of references names.
Contents(ds, refs) == [j \in 1..Len(refs) |-> ds[refs[j]]]

\* The lens model and its spot diagram come from the rayoptics library; it
\* is taken as a function of the surface data: the ray of pupil coordinate
\* h lands at y = h * (the sum of the radii and thicknesses, modulo
\* SpotRange), x = 0.
PupilHeights == <<-1, 1>>

RECURSIVE SumParams(_)
SumParams(surfs) ==
    IF surfs = <<>> THEN 0
    ELSE Abs(Head(surfs).radius) + Head(surfs).thickness + SumParams(Tail(surfs))

run_spot_diagram(surfs) ==
    [h \in 1..Len(PupilHeights) |-> <<0, PupilHeights[h] * (SumParams(surfs) % SpotRange)>>]

\* spots of _run_single_monte_carlo(optical_stack, surfaces_list, ...)
_run_single_monte_carlo(surfaces_list) == run_spot_diagram(surfaces_list)

RECURSIVE SumCoord(_, _)
SumCoord(spots, c) ==
    IF spots = <<>> THEN 0 ELSE Head(spots)[c] + SumCoord(Tail(spots), c)

RECURSIVE SumSqDist(_, _, _)
SumSqDist(spots, cx, cy) ==
    IF spots = <<>> THEN 0
    ELSE (Head(spots)[1] - cx) * (Head(spots)[1] - cx)
           + (Head(spots)[2] - cy) * (Head(spots)[2] - cy)
           + SumSqDist(Tail(spots), cx, cy)

\* sqrt(mean((x - cx) ** 2 + (y - cy) ** 2)) about the centroid (cx, cy)
rms_spread(spots) ==
    ISqrt(RDiv(SumSqDist(spots, RDiv(SumCoord(spots, 1), Len(spots)),
                         RDiv(SumCoord(spots, 2), Len(spots))),
               Len(spots)))

McStacks ==
    { <<>>,
      << McSurface(50000, 5000, 100, 50, "N-BK7") >>,
      << McSurface(50000, 5000, 100, 50, "N-BK7"), McSurface(-50000, 0, 0, 5, "Air") >>,
      << McSurface(50020, 5000, 0, 0, "N-BK7"), McSurface(-50000, 95000, 0, 0, "Air") >>,
      << McSurface(50000, 0, 0, 0, "N-SF11"), McSurface(-50000, 95000, 0, 0, "Air") >>,
      << McSurface(50000, 5000, 100, 50, "N-BK7"), McSurface(-50000, 2000, 60, 0, ""),
         McSurface(40000, 95000, 0, 0, "Air") >>,
      << McSurface(0, 5000, 100, 0, "N-BK7"), McSurface(-40, 95000, 100, 0, "Air") >> }

McRequests ==
    { Request(st, nr, its) : st \in McStacks, nr \in {1, 9}, its \in {0, 2} }

PositiveTolerance(s) == ~(s.radiusTolerance <= 0 /\ s.thicknessTolerance <= 0)

\* The caller's optical_stack and surface dicts, as the call receives them.
CallerDicts(req) == req.surfaces
CallerStacks(req) ==
    << [surfaces |-> [j \in 1..Len(req.surfaces) |-> j], numRays |-> req.numRays] >>

NumSurfaces == Len(mc_request.surfaces)

\* The first completed call of run_monte_carlo, kept to compare later calls.
Remember(req, res) ==
    IF first_call = None THEN Some([request |-> req, result |-> res]) ELSE first_call

CallBegins(kind, req) ==
    /\ mpc \in {"idle", "returned"}
    /\ ncalls < MaxCalls
    /\ ncalls' = ncalls + 1
    /\ entropy' = entropy + 1
    /\ call_kind' = kind
    /\ mc_request' = req
    /\ between' = (between \/ (first_call # None /\
                                 (kind # "monte_carlo" \/ req # first_call[1].request)))

monte_carlo_begin ==
    \E req \in McRequests :
        /\ CallBegins("monte_carlo", req)
        /\ dicts' = CallerDicts(req)
        /\ stacks' = CallerStacks(req)
        /\ rng' = NewGenerator(entropy)
        /\ it' = 0
        /\ all_spots' = <<>>
        /\ jittered_surfaces' = <<>>
        /\ sens_perturbed' = <<>>
        /\ sensitivity_by_surface' = <<>>
        /\ surf_idx' = 1 /\ sens_it' = 0 /\ surf_spots' = <<>>
        /\ IF req.surfaces = <<>>
             THEN /\ mpc' = "returned"
                  /\ mc_result' = McResult("No surfaces", <<>>, 0, 0, None)
                  /\ first_call' = Remember(req, McResult("No surfaces", <<>>, 0, 0, None))
             ELSE /\ mpc' = "main"
                  /\ mc_result' = NoMcResult
                  /\ UNCHANGED first_call
        /\ UNCHANGED outside_mc

\* One pass of "for i in range(iterations)"; the dicts of the pass are
\* dropped at its end.
MainPass(j) ==
    /\ jittered_surfaces' = Contents(j.dicts, j.out)
    /\ all_spots' = all_spots \o _run_single_monte_carlo(Contents(j.dicts, j.out))
    /\ rng' = j.rng
    /\ dicts' = SubSeq(j.dicts, 1, NumSurfaces)

monte_carlo_iteration ==
    /\ mpc = "main"
    /\ it < mc_request.iterations
    /\ MainPass(_jitter_surfaces(dicts, NumSurfaces, rng, None))
    /\ it' = it + 1
    /\ UNCHANGED <<outside_mc, mpc, call_kind, mc_request, stacks, entropy, surf_idx,
                   sens_it, surf_spots, sensitivity_by_surface, sens_perturbed,
                   mc_result, ncalls, first_call, between>>

\* After the loop: the early return without spots, or the start of the
\* per-surface sensitivity sweep.
monte_carlo_aggregate ==
    /\ mpc = "main"
    /\ it = mc_request.iterations
    /\ IF all_spots = <<>>
         THEN /\ mpc' = "returned"
              /\ mc_result' = McResult("No valid traces", <<>>, 0, 0, None)
              /\ first_call' = Remember(mc_request,
                                        McResult("No valid traces", <<>>, 0, 0, None))
              /\ UNCHANGED <<sensitivity_by_surface, sens_perturbed>>
         ELSE /\ mpc' = "sens"
              /\ sensitivity_by_surface' = [j \in 1..NumSurfaces |-> 0]
              /\ sens_perturbed' = [j \in 1..NumSurfaces |-> {}]
              /\ UNCHANGED <<mc_result, first_call>>
    /\ surf_idx' = 1 /\ sens_it' = 0 /\ surf_spots' = <<>>
    /\ UNCHANGED <<outside_mc, call_kind, mc_request, dicts, stacks, rng, entropy, it,
                   all_spots, jittered_surfaces, ncalls, between>>

\* A surface without a positive tolerance: continue.
sensitivity_skip ==
    /\ mpc = "sens"
    /\ surf_idx <= NumSurfaces
    /\ ~PositiveTolerance(dicts[surf_idx])
    /\ surf_idx' = surf_idx + 1
    /\ UNCHANGED <<outside_mc, mpc, call_kind, mc_request, dicts, stacks, rng, entropy,
                   it, all_spots, sens_it, surf_spots, sensitivity_by_surface,
                   jittered_surfaces, sens_perturbed, mc_result, ncalls, first_call,
                   between>>

\* The surfaces whose dict in the jittered list differs from the caller's.
Perturbed(j) ==
    { q \in 1..Len(j.out) : j.dicts[j.out[q]] # mc_request.surfaces[q] }

SensitivityPass(j) ==
    /\ jittered_surfaces' = Contents(j.dicts, j.out)
    /\ surf_spots' = surf_spots \o _run_single_monte_carlo(Contents(j.dicts, j.out))
    /\ sens_perturbed' = [sens_perturbed EXCEPT ![surf_idx] = @ \cup Perturbed(j)]
    /\ rng' = j.rng
    /\ dicts' = SubSeq(j.dicts, 1, NumSurfaces)

sensitivity_iteration ==
    /\ mpc = "sens"
    /\ surf_idx <= NumSurfaces
    /\ PositiveTolerance(dicts[surf_idx])
    /\ sens_it < SENSITIVITY_ITERATIONS
    /\ SensitivityPass(_jitter_surfaces(dicts, NumSurfaces, rng, Some(surf_idx)))
    /\ sens_it' = sens_it + 1
    /\ UNCHANGED <<outside_mc, mpc, call_kind, mc_request, stacks, entropy, it,
                   all_spots, surf_idx, sensitivity_by_surface, mc_result, ncalls,
                   first_call, between>>

sensitivity_surface_done ==
    /\ mpc = "sens"
    /\ surf_idx <= NumSurfaces
    /\ PositiveTolerance(dicts[surf_idx])
    /\ sens_it = SENSITIVITY_ITERATIONS
    /\ sensitivity_by_surface' =
          IF surf_spots # <<>>
            THEN [sensitivity_by_surface EXCEPT ![surf_idx] = rms_spread(surf_spots)]
            ELSE sensitivity_by_surface
    /\ surf_idx' = surf_idx + 1
    /\ sens_it' = 0
    /\ surf_spots' = <<>>
    /\ UNCHANGED <<outside_mc, mpc, call_kind, mc_request, dicts, stacks, rng, entropy,
                   it, all_spots, jittered_surfaces, sens_perturbed, mc_result, ncalls,
                   first_call, between>>

McReturns(res) ==
    /\ mc_result' = res
    /\ first_call' = Remember(mc_request, res)

monte_carlo_return ==
    /\ mpc = "sens"
    /\ surf_idx > NumSurfaces
    /\ mpc' = "returned"
    /\ McReturns(McResult("", all_spots, rms_spread(all_spots), Len(all_spots),
                         Some(sensitivity_by_surface)))
    /\ UNCHANGED <<outside_mc, call_kind, mc_request, dicts, stacks, rng, entropy, it,
                   all_spots, surf_idx, sens_it, surf_spots, sensitivity_by_surface,
                   jittered_surfaces, sens_perturbed, ncalls, between>>

(***************************************************************************)
(* run_optimize_colors (pyodide/trace.py).                                 *)
(***************************************************************************)
DEFAULT_T1 == 5000
DEFAULT_NUM_RAYS == 9
MIN_NUM_RAYS == 2

\* _canonical_name(k) of the Sellmeier glasses of _GLASS_LIBRARY.
GlassNames == {"N-BK7", "N-SF11", "Calcium Fluoride"}

\* The candidates: every glass but the one of the first element.
Candidates(mat1) == { g \in GlassNames : LowerStrip(g) # mat1 }

\* stack = dict(optical_stack); stack["surfaces"] = list(surfaces);
\* stack["numRays"] = max(2, int(optical_stack.get("numRays", 9) or 9))
StackWrites(ss, ref) ==
    [ss EXCEPT ![ref].surfaces = ss[1].surfaces,
               ![ref].numRays = Max(MIN_NUM_RAYS,
                                    IF ss[1].numRays = 0 THEN DEFAULT_NUM_RAYS
                                    ELSE ss[1].numRays)]

\* dict(s0, thickness=t1) with t1 = float(s0.get("thickness", 5) or 5)
DoubletWrite(ds, ref) ==
    [ds EXCEPT ![ref].thickness = IF ds[1].thickness = 0 THEN DEFAULT_T1
                                  ELSE ds[1].thickness]

EarlyReturn(req) ==
    \/ Len(req.surfaces) < 2
    \/ LowerStrip(req.surfaces[1].material) \in {"", "air"}

\* One call of run_optimize_colors.  finite says whether the chromatic
\* shift of the singlet is finite at both wavelengths, best is the candidate
\* with the smallest chromatic aberration ("" when none gives a finite one).
optimize_colors_call ==
    \E req \in McRequests, finite \in BOOLEAN, best \in GlassNames \cup {""} :
        /\ CallBegins("optimize_colors", req)
        /\ mpc' = "returned"
        /\ IF EarlyReturn(req)
             THEN /\ stacks' = CallerStacks(req)
                  /\ dicts' = CallerDicts(req)
                  /\ recommended_glass' = ""
             ELSE /\ stacks' = SubSeq(StackWrites(Append(CallerStacks(req),
                                                         CallerStacks(req)[1]),
                                                  dict_copy(CallerStacks(req), 1)),
                                      1, 1)
                  /\ dicts' = IF finite
                                THEN SubSeq(DoubletWrite(Append(CallerDicts(req),
                                                                CallerDicts(req)[1]),
                                                         dict_copy(CallerDicts(req), 1)),
                                            1, Len(req.surfaces))
                                ELSE CallerDicts(req)
                  /\ recommended_glass' =
                        IF finite /\ best \in Candidates(LowerStrip(req.surfaces[1].material))
                          THEN best ELSE ""
        /\ UNCHANGED <<not_mc_vars, rng, it, all_spots, surf_idx, sens_it, surf_spots,
                       sensitivity_by_surface, jittered_surfaces, sens_perturbed,
                       mc_result, first_call>>

NextMC ==
    \/ monte_carlo_begin
    \/ monte_carlo_iteration
    \/ monte_carlo_aggregate
    \/ sensitivity_skip
    \/ sensitivity_iteration
    \/ sensitivity_surface_done
    \/ monte_carlo_return
    \/ optimize_colors_call

SpecMC == Init /\ [][NextMC]_vars

\* C16: run_monte_carlo (through _jitter_surfaces) and run_optimize_colors
\* never modify the caller's optical_stack or its surface dicts: at every
\* point of a call they hold what the caller passed.
C16_CallerUnchanged ==
    mpc # "idle" =>
        /\ dicts = CallerDicts(mc_request)
        /\ stacks = CallerStacks(mc_request)

C16_Witness ==
    /\ mpc = "returned"
    /\ call_kind = "monte_carlo"
    /\ mc_result.numValid > 0
    /\ jittered_surfaces # <<>>
    /\ jittered_surfaces # mc_request.surfaces

WithinTolerance(value, nominal, tol) ==
    IF tol > 0 THEN Abs(value - nominal) <= tol ELSE value = nominal

\* C17: in the list _jitter_surfaces returns every radius is within
\* radiusTolerance of the nominal radius and every thickness within
\* thicknessTolerance of the nominal thickness; a tolerance of 0 (or none)
\* leaves the parameter exactly as it was.
C17_JitterWithinTolerance ==
    call_kind = "monte_carlo" =>
        \A q \in 1..Len(jittered_surfaces) :
            /\ WithinTolerance(jittered_surfaces[q].radius,
                               mc_request.surfaces[q].radius,
                               mc_request.surfaces[q].radiusTolerance)
            /\ WithinTolerance(jittered_surfaces[q].thickness,
                               mc_request.surfaces[q].thickness,
                               mc_request.surfaces[q].thicknessTolerance)

AllTolerancesZero(surfaces) ==
    \A q \in 1..Len(surfaces) :
        surfaces[q].radiusTolerance = 0 /\ surfaces[q].thicknessTolerance = 0

\* C18: with every tolerance 0 run_monte_carlo reports rmsSpread = 0,
\* whatever the number of iterations.
C18_ZeroToleranceZeroSpread ==
    (mpc = "returned" /\ call_kind = "monte_carlo"
       /\ AllTolerancesZero(mc_request.surfaces)) => mc_result.rmsSpread = 0

SameKind(radius, nominal) ==
    /\ nominal = 0 => radius = 0
    /\ nominal > 0 => radius > 0
    /\ nominal < 0 => radius < 0

\* C29: _jitter_surfaces keeps the kind of every surface: a flat surface
\* (radius 0) stays flat, and the radius of a curved surface neither
\* becomes 0 nor changes sign.
C29_JitterKeepsKind ==
    call_kind = "monte_carlo" =>
        \A q \in 1..Len(jittered_surfaces) :
            SameKind(jittered_surfaces[q].radius, mc_request.surfaces[q].radius)

\* run_chromatic_shift where a call that can take a step takes it.
SpecChromaFair == Init /\ [][NextChroma]_vars /\ WF_vars(NextChroma)

\* C27: run_chromatic_shift terminates for every range and step the API
\* accepts, a step of 0 or below and min > max included: a call that has
\* started building its wavelength list returns or raises.
C27_ChromaticShiftTerminates ==
    (cpc = "wavelengths") ~> (cpc \in {"returned", "raised"})

(***************************************************************************)
(* run_chromatic_shift (pyodide) after run_trace.  The dict run_trace      *)
(* returned holds the list bound to _termination_log itself, and nothing   *)
(* rebinds that name before the next run_trace: termination_log is what    *)
(* the holder of the result reads, result.terminationLog what it held at   *)
(* the return.                                                             *)
(***************************************************************************)
ShiftWavelengths == <<4860, 6560>>

RECURSIVE TraceRayLog(_, _, _, _, _, _, _, _, _)

\* After one pass o of trace_ray's loop: the raise, the termination that is
\* logged, or the next surface.
TraceRayNext(surfaces, idx, cz, wvl_nm, o) ==
    IF o.raised THEN [term |-> "", surf |-> idx, raised |-> TRUE]
    ELSE IF o.term # "" THEN [term |-> o.term, surf |-> idx, raised |-> FALSE]
    ELSE TraceRayLog(surfaces, idx + 1, cz, o.rz, o.ry, o.dz, o.dy, o.n2, wvl_nm)

\* What one call of trace_ray hands to _log_termination.
TraceRayLog(surfaces, idx, cz, rz, ry, dz, dy, nb, wvl_nm) ==
    IF idx > Len(surfaces) THEN [term |-> "", surf |-> 0, raised |-> FALSE]
    ELSE TraceRayNext(surfaces, idx, cz, wvl_nm,
                      SurfaceStep(surfaces, idx, cz, rz, ry, dz, dy, nb, wvl_nm))

shift_begin ==
    /\ pc = "done"
    /\ spc = "idle"
    /\ spc' = IF optical_stack.surfaces = <<>> THEN "returned" ELSE "rays"
    /\ shift_w' = 1
    /\ shift_k' = 0
    /\ UNCHANGED not_shift_vars

\* The termination_log after trace_ray reported t.
ShiftLogged(t) ==
    /\ spc' = IF t.raised THEN "raised" ELSE "rays"
    /\ termination_log' = IF t.term # "" /\ ~t.raised
                            THEN LogTermination(termination_log, t.term, t.surf)
                            ELSE termination_log

\* One pass of "for k in range(num_rays)" at one wavelength.
shift_trace_ray ==
    /\ spc = "rays"
    /\ shift_w <= Len(ShiftWavelengths)
    /\ ShiftLogged(TraceRayLog(optical_stack.surfaces, 1,
                               CumulativeZ(optical_stack.surfaces), RAY_START_Z,
                               RayHeight(optical_stack.entrancePupilDiameter,
                                         NumRays(optical_stack), shift_k),
                               DirOf(0)[1], DirOf(0)[2], AIR_INDEX,
                               ShiftWavelengths[shift_w]))
    /\ shift_k' = IF shift_k + 1 >= NumRays(optical_stack) THEN 0 ELSE shift_k + 1
    /\ shift_w' = IF shift_k + 1 >= NumRays(optical_stack) THEN shift_w + 1 ELSE shift_w
    /\ UNCHANGED <<optical_stack, pc, cumulative_z, z_target, fld_idx, k, ray_z, ray_y,
                   ray_dz, ray_dy, n_before, path, i, completed_all, idx_used, dir_out,
                   rays, ray_field_indices, ray_power, refraction_log, traced,
                   returned, result, beside_shift_vars>>

shift_return ==
    /\ spc = "rays"
    /\ shift_w > Len(ShiftWavelengths)
    /\ spc' = "returned"
    /\ UNCHANGED <<not_shift_vars, shift_w, shift_k>>

NextLog ==
    \/ run_trace_begin
    \/ trace_ray_begin
    \/ trace_ray_surface
    \/ trace_ray_return
    \/ run_trace_finish
    \/ shift_begin
    \/ shift_trace_ray
    \/ shift_return

SpecLog == Init /\ [][NextLog]_vars

\* C22: the terminationLog and refractionLog of a run_trace result hold
\* only entries of that call's own rays and do not change once the result
\* is returned, whatever is called afterwards.
C22_ReturnedLogsAreStable ==
    pc = "done" =>
        /\ termination_log = result.terminationLog
        /\ refraction_log = result.refractionLog

(***************************************************************************)
(* run_trace on stacks with a non-physical surface: a negative refractive  *)
(* index, thickness or diameter.                                           *)
(***************************************************************************)
NonPhysicalCatalog ==
    { Surface("Glass", 50, -5, 1517, 25, "N-BK7", "", "none"),
      Surface("Glass", 0, 3, -1600, 8, "", "", "none"),
      Surface("Glass", 50, 5, 1517, -25, "N-BK7", "", "none") }

NonPhysical(s) == s.refractiveIndex < 0 \/ s.thickness < 0 \/ s.diameter < 0

HasNonPhysical(surfaces) == \E q \in 1..Len(surfaces) : NonPhysical(surfaces[q])

NonPhysicalStacks ==
    { stack \in [surfaces : SeqsUpTo(SurfaceCatalog \cup NonPhysicalCatalog, MaxSurfaces),
                 entrancePupilDiameter : {DEFAULT_EPD},
                 wavelengths : {<<DEFAULT_WVL>>},
                 numRays : {2},
                 fieldAngles : {<<0>>}] : HasNonPhysical(stack.surfaces) }

run_trace_begin_unchecked ==
    /\ pc = "idle"
    /\ \E stack \in NonPhysicalStacks : run_trace_call(stack)

NextUnchecked ==
    \/ run_trace_begin_unchecked
    \/ trace_ray_begin
    \/ trace_ray_surface
    \/ trace_ray_return
    \/ run_trace_finish

SpecUnchecked == Init /\ [][NextUnchecked]_vars

\* C23: run_trace rejects a surface with a negative refractive index,
\* thickness or aperture before any ray is traced: no ray is started on such
\* a stack and the result carries an error.
C23_NonPhysicalRejected ==
    HasNonPhysical(optical_stack.surfaces) =>
        /\ traced = 0
        /\ pc = "done" => result.error # ""

(***************************************************************************)
(* run_trace of the backend service, step by step.  The lens model is      *)
(* built and traced by the rayoptics library: rt_fault names the step of   *)
(* the call in which the library raises, "" when none does.  The surface   *)
(* data are computed by optical_stack_to_surf_data, which raises when a    *)
(* Sellmeier term has its pole at the wavelength.                          *)
(***************************************************************************)
RtFaults == {"", "model build", "paraxial solve", "ray trace", "spot diagram",
             "focus search"}

RtWavelengths == {8, PoleWavelength}

RtResult(error, nrays) == [error |-> error, rays |-> nrays, surfaces |-> 0]

\* The rays of the fan that the result carries.
RtRays == 2

\* surfaces = optical_stack.get("surfaces", []); if not surfaces: return {"error": ...}
rt_begin ==
    /\ rt_pc = "idle"
    /\ \E st \in ChromaStacks, wl \in RtWavelengths, flt \in RtFaults :
         /\ rt_surfaces' = st
         /\ rt_wvl_nm' = wl
         /\ rt_fault' = flt
         /\ rt_failed' = (st = <<>>)
         /\ rt_pc' = IF st = <<>> THEN "returned" ELSE "surf_data"
         /\ rt_result' = IF st = <<>> THEN RtResult("No surfaces provided", 0)
                                      ELSE <<>>
    /\ UNCHANGED not_rt_vars

\* surf_data_list = optical_stack_to_surf_data(surfaces, wvl_nm=wvl_nm)
rt_surf_data ==
    /\ rt_pc = "surf_data"
    /\ rt_pc' = IF surf_data_raises(rt_surfaces, rt_wvl_nm) THEN "raised" ELSE "build"
    /\ rt_failed' = surf_data_raises(rt_surfaces, rt_wvl_nm)
    /\ UNCHANGED <<not_rt_vars, rt_surfaces, rt_wvl_nm, rt_fault, rt_result>>

\* try: opt_model = build_singlet_from_surface_data(...), whose last step
\* opt_model.update_model() is the paraxial solve; except Exception: return
\* the error.
rt_build ==
    /\ rt_pc = "build"
    /\ IF rt_fault \in {"model build", "paraxial solve"}
         THEN /\ rt_pc' = "returned"
              /\ rt_failed' = TRUE
              /\ rt_result' = RtResult(rt_fault, 0)
         ELSE /\ rt_pc' = "rays"
              /\ UNCHANGED <<rt_failed, rt_result>>
    /\ UNCHANGED <<not_rt_vars, rt_surfaces, rt_wvl_nm, rt_fault>>

\* The loop over the fields: analyses.trace_ray_list(...) outside any try.
rt_rays ==
    /\ rt_pc = "rays"
    /\ rt_pc' = IF rt_fault = "ray trace" THEN "raised" ELSE "spot"
    /\ rt_failed' = (rt_fault = "ray trace")
    /\ UNCHANGED <<not_rt_vars, rt_surfaces, rt_wvl_nm, rt_fault, rt_result>>

\* spot_xy, dxdy = run_spot_diagram(...) outside any try.
rt_spot ==
    /\ rt_pc = "spot"
    /\ rt_pc' = IF rt_fault = "spot diagram" THEN "raised" ELSE "focus"
    /\ rt_failed' = (rt_fault = "spot diagram")
    /\ UNCHANGED <<not_rt_vars, rt_surfaces, rt_wvl_nm, rt_fault, rt_result>>

\* try: _best_focus_golden_section(...) except Exception: best_focus_z =
\* focus_z; the result is built without an "error" key.
rt_focus ==
    /\ rt_pc = "focus"
    /\ rt_pc' = "returned"
    /\ rt_failed' = (rt_fault = "focus search")
    /\ rt_result' = RtResult("", RtRays)
    /\ UNCHANGED <<not_rt_vars, rt_surfaces, rt_wvl_nm, rt_fault>>

NextRt ==
    \/ rt_begin
    \/ rt_surf_data
    \/ rt_build
    \/ rt_rays
    \/ rt_spot
    \/ rt_focus

SpecRt == Init /\ [][NextRt]_vars

\* C24: every failure inside run_trace comes back as a result with an
\* explicit error and the rays and surfaces found so far; no exception
\* leaves the call.
C24_FailuresAreReturned ==
    /\ rt_pc # "raised"
    /\ rt_pc = "returned" /\ rt_failed => rt_result.error # ""

ZScale == 1000 * 100
MaxRows == 3
DEFAULT_THICKNESS == 1000000

\* round(z, 4)
Round4(z) == RoundToEven(z, ZScale \div (100 * 100))

EditorRow(thickness, z) == [Thickness |-> thickness, Z_Position |-> z]

ThicknessValues == {DEFAULT_THICKNESS, 500000, 123456, -500000}

RECURSIVE RecalcFrom(_, _, _)
\* for s in stack: s["Z-Position"] = round(z, 4); z += Thickness
RecalcFrom(rows, q, z) ==
    IF q > Len(rows) THEN rows
    ELSE RecalcFrom([rows EXCEPT ![q].Z_Position = Round4(z)], q + 1,
                    z + rows[q].Thickness)

RECURSIVE RecalcAfterFrom(_, _, _)
RecalcAfterFrom(rows, q, z) ==
    IF q > Len(rows) THEN rows
    ELSE RecalcAfterFrom([rows EXCEPT ![q].Z_Position = Round4(z + rows[q].Thickness)],
                         q + 1, z + rows[q].Thickness)

\* A recalculation that adds the thickness of a row before it writes the
\* position of that row.
recalc_z_positions_after(stack) == RecalcAfterFrom(stack, 1, 0)

recalc_z_positions(stack) == RecalcFrom(stack, 1, 0)

\* st.session_state.stack.insert(index, new_element), index from 0.
add_surface(stack, index, thickness) ==
    SubSeq(stack, 1, index) \o <<EditorRow(thickness, 0)>>
        \o SubSeq(stack, index + 1, Len(stack))

RECURSIVE SumThickness(_, _)
\* The sum of the thicknesses of the first n rows.
SumThickness(rows, n) ==
    IF n = 0 THEN 0 ELSE SumThickness(rows, n - 1) + rows[n].Thickness

RECURSIVE InsertByZ(_, _)
\* sorted(...) is stable: a pair goes behind the pairs with the same z.
InsertByZ(sorted, pr) ==
    IF sorted = <<>> THEN <<pr>>
    ELSE IF Head(sorted)[1] <= pr[1] THEN <<Head(sorted)>> \o InsertByZ(Tail(sorted), pr)
    ELSE <<pr>> \o sorted

RECURSIVE SortFrom(_, _, _)
SortFrom(stack, q, acc) ==
    IF q > Len(stack) THEN acc
    ELSE SortFrom(stack, q + 1,
                  InsertByZ(acc, <<SumThickness(stack, q - 1), stack[q]>>))

sort_by_z_position(stack) ==
    IF Len(stack) <= 1 THEN stack
    ELSE LET pairs == SortFrom(stack, 1, <<>>)
         IN  [q \in 1..Len(pairs) |-> pairs[q][2]]

\* _normalize_record: a missing Thickness becomes 10.0; the Z-Position of
\* the record is dropped.
_normalize_record(thickness) ==
    EditorRow(IF thickness = None THEN DEFAULT_THICKNESS ELSE thickness[1], 0)

insert_clicked ==
    /\ Len(editor_stack) < MaxRows
    /\ IF editor_stack = <<>>
         THEN editor_stack' = recalc_z_positions(add_surface(editor_stack, 0, DEFAULT_THICKNESS))
         ELSE \E idx \in 0..(Len(editor_stack) - 1) :
                editor_stack' =
                    recalc_z_positions(add_surface(editor_stack, idx + 1, DEFAULT_THICKNESS))
    /\ editor_op' = "insert"
    /\ UNCHANGED <<not_editor_vars, cz_surfaces, cz_result>>

clear_clicked ==
    /\ editor_stack' = recalc_z_positions(<<EditorRow(DEFAULT_THICKNESS, 0)>>)
    /\ editor_op' = "clear"
    /\ UNCHANGED <<not_editor_vars, cz_surfaces, cz_result>>

sort_clicked ==
    /\ editor_stack' = recalc_z_positions(sort_by_z_position(editor_stack))
    /\ editor_op' = "sort"
    /\ UNCHANGED <<not_editor_vars, cz_surfaces, cz_result>>

\* The tables the data editor can hand back after one edit of the table
\* rows: a thickness typed into a row, a row added at the end, with or
\* without a thickness, or a row deleted.
EditedTables(rows) ==
    { [rows EXCEPT ![q] = <<t>>] : q \in 1..Len(rows), t \in ThicknessValues }
        \cup { Append(rows, x) : x \in IF Len(rows) < MaxRows
                                         THEN {None} \cup {Some(t) : t \in ThicknessValues}
                                         ELSE {} }
        \cup { SubSeq(rows, 1, q - 1) \o SubSeq(rows, q + 1, Len(rows)) : q \in 1..Len(rows) }

\* Sync from the data editor's return value: an empty table empties the
\* stack, any other is normalized and recalculated.
data_editor_sync ==
    /\ \E edited \in EditedTables([q \in 1..Len(editor_stack) |->
                                      Some(editor_stack[q].Thickness)]) :
         editor_stack' =
             IF edited = <<>> THEN <<>>
             ELSE recalc_z_positions([q \in 1..Len(edited) |-> _normalize_record(edited[q])])
    /\ editor_op' = "edit"
    /\ UNCHANGED <<not_editor_vars, cz_surfaces, cz_result>>

\* cumulative_z of run_trace for a non-empty surface list.
run_trace_cumulative_z ==
    /\ cz_surfaces = <<>>
    /\ \E th \in SeqsUpTo(ThicknessValues \ {DEFAULT_THICKNESS}, MaxRows) \ {<<>>} :
         /\ cz_surfaces' = [q \in 1..Len(th) |-> [thickness |-> th[q]]]
         /\ cz_result' = CumulativeZ([q \in 1..Len(th) |-> [thickness |-> th[q]]])
    /\ UNCHANGED <<not_editor_vars, editor_stack, editor_op>>

NextEditor ==
    \/ insert_clicked
    \/ clear_clicked
    \/ sort_clicked
    \/ data_editor_sync
    \/ run_trace_cumulative_z

SpecEditor == Init /\ [][NextEditor]_vars

RECURSIVE SumOfThicknesses(_, _)
SumOfThicknesses(surfaces, n) ==
    IF n = 0 THEN 0 ELSE SumOfThicknesses(surfaces, n - 1) + surfaces[n].thickness

\* cumulative_z of run_trace: surface 0 at z = 0, surface q at the sum of
\* the thicknesses before it.
CumulativeZIsSum ==
    /\ Len(cz_result) = Max(1, Len(cz_surfaces))
    /\ \A q \in 1..Len(cz_surfaces) : cz_result[q] = SumOfThicknesses(cz_surfaces, q - 1)

AngleScale == 100 * 100
SineScale == 4 * 4
RightAngle == 90 * AngleScale

\* np.arcsin of k/SineScale, 0 <= k <= SineScale.
ArcSinTable ==
    << 35833, 71808, 108069, 144775, 182100, 220243, 259445, 300000,
       342289, 386822, 434325, 485904, 543409, 610450, 696359, 900000 >>

\* np.arcsin(x), x in 1/SineScale.
ArcSin(x) ==
    IF x = 0 THEN 0 ELSE IF x > 0 THEN ArcSinTable[x] ELSE -ArcSinTable[-x]

\* np.sin(theta) for an angle of the model between -180 and 180 degrees.
SinOf(theta) ==
    LET a == IF Abs(theta) > RightAngle THEN 2 * RightAngle - Abs(theta) ELSE Abs(theta)
        m == IF a = 0 THEN 0 ELSE CHOOSE x \in 1..SineScale : ArcSinTable[x] = a
    IN  IF theta < 0 THEN -m ELSE m

SnellIndices == {1000, 2000, 4000}

SnellAngles ==
    LET pos == {0, ArcSin(4), ArcSin(8), ArcSin(12), RightAngle,
                2 * RightAngle - ArcSin(8), 2 * RightAngle - ArcSin(4)}
    IN  pos \cup {-a : a \in pos}

\* A snell_law that takes the critical angle itself for total internal
\* reflection.
snell_law_closed(n1, n2, theta1_rad) ==
    IF Abs(n1 * SinOf(theta1_rad)) >= n2 * SineScale /\ n1 > n2 THEN None
    ELSE Some(ArcSin((n1 * SinOf(theta1_rad)) \div n2))

\* sin_theta2 = n1 * sin_theta1 / n2; None when it is above 1.0 or below
\* -1.0, np.arcsin(sin_theta2) otherwise.
snell_law(n1, n2, theta1_rad) ==
    IF n1 * SinOf(theta1_rad) > n2 * SineScale
         \/ n1 * SinOf(theta1_rad) < -(n2 * SineScale) THEN None
    ELSE Some(ArcSin((n1 * SinOf(theta1_rad)) \div n2))

snell_law_call ==
    /\ \E n1 \in SnellIndices, n2 \in SnellIndices, theta1 \in SnellAngles :
         /\ snell_n1' = n1
         /\ snell_n2' = n2
         /\ snell_theta1' = theta1
         /\ snell_theta2' = snell_law(n1, n2, theta1)
         /\ snell_theta2_neg' = snell_law(n1, n2, -theta1)
    /\ UNCHANGED not_snell_vars

NextSnell == snell_law_call

SpecSnell == Init /\ [][NextSnell]_vars

\* arcsin(n2 / n1), the critical angle of a passage into the thinner medium.
CriticalAngle(n1, n2) == ArcSin((n2 * SineScale) \div n1)

\* -theta2, None for None.
Opposite(theta2) == IF theta2 = None THEN None ELSE Some(-theta2[1])

\* n1 * sin(theta1) = n2 * sin(theta2) for a returned theta2.
Refracts(n1, n2, theta1, theta2) ==
    /\ theta2 # None
    /\ n1 * SinOf(theta1) = n2 * SinOf(theta2[1])

\* C26: snell_law returns None whenever n1 > n2 and |theta1| is at or above
\* the critical angle arcsin(n2/n1), and otherwise theta2 with n1 sin(theta1)
\* = n2 sin(theta2); theta2 is 0 at normal incidence, theta1 when n1 = n2,
\* and the result for -theta1 is the opposite of the result for theta1.
C26_SnellLaw ==
    snell_n1 # 0 =>
        /\ IF snell_n1 > snell_n2
                /\ Abs(snell_theta1) >= CriticalAngle(snell_n1, snell_n2)
             THEN snell_theta2 = None
             ELSE Refracts(snell_n1, snell_n2, snell_theta1, snell_theta2)
        /\ snell_theta1 = 0 => snell_theta2 = Some(0)
        /\ snell_n1 = snell_n2 => snell_theta2 = Some(snell_theta1)
        /\ snell_theta2_neg = Opposite(snell_theta2)

\* C26 as the code has it, for incidence angles of at most 90 degrees:
\* None only strictly above the critical angle, at the critical angle
\* itself the grazing ray of 90 degrees.
C26_SnellLawAboveCritical ==
    snell_n1 # 0 =>
        /\ Abs(snell_theta1) <= RightAngle =>
             /\ IF snell_n1 > snell_n2
                     /\ Abs(snell_theta1) > CriticalAngle(snell_n1, snell_n2)
                  THEN snell_theta2 = None
                  ELSE Refracts(snell_n1, snell_n2, snell_theta1, snell_theta2)
             /\ snell_n1 = snell_n2 => snell_theta2 = Some(snell_theta1)
        /\ snell_theta1 = 0 => snell_theta2 = Some(0)
        /\ snell_theta2_neg = Opposite(snell_theta2)

\* A call at the critical angle of a passage from index 2 to index 1.
C26_Witness ==
    /\ snell_n1 = 2000 /\ snell_n2 = 1000
    /\ snell_theta1 = 300000
    /\ snell_theta2 = Some(RightAngle)

(***************************************************************************)
(* LENS-X export (backend/lens_x_export.py) and import                     *)
(* (backend/optical_importer.py).  Lengths are in 1/10 mm; a coating that  *)
(* is absent is "", Sellmeier coefficients that are absent are "none", a   *)
(* tolerance that is absent is None.  The refractive index, the id and the *)
(* description of a surface are left out.                                  *)
(***************************************************************************)
MaxLensSurfaces == 2
DEFAULT_APERTURE == 125
MIN_DIAMETER == 1

LensSurface(type, radius, material, coating, sellmeier, radiusTolerance) ==
    [type |-> type, radius |-> radius, thickness |-> 50, diameter |-> 250,
     material |-> material, coating |-> coating, sellmeierCoefficients |-> sellmeier,
     radiusTolerance |-> radiusTolerance, thicknessTolerance |-> None,
     tiltTolerance |-> Some(0)]

\* The surfaces of the editor: glass with or without coefficients, air
\* behind the last glass, each with or without a coating and a tolerance.
LensSurfaces ==
    { LensSurface("Glass", r, "N-BK7", c, sm, tol) :
        r \in {0, 500}, c \in {"", "MgF2"}, sm \in {"none", "n-bk7"},
        tol \in {None, Some(1)} }
    \cup { LensSurface("Air", r, "Air", c, "none", tol) :
              r \in {0, -500}, c \in {"", "MgF2"}, tol \in {None, Some(1)} }

\* _surface_to_lens_x
_surface_to_lens_x(s) ==
    LET material == IF s.material # "" THEN s.material
                    ELSE IF s.type = "Air" THEN "Air" ELSE "N-BK7"
    IN  [radius |-> s.radius,
         thickness |-> s.thickness,
         aperture |-> s.diameter \div 2,
         material |-> material,
         type |-> IF s.type = "Air" \/ material = "Air" THEN "Air" ELSE "Glass",
         physics |-> [sellmeier |-> s.sellmeierCoefficients,
                      coating |-> Strip(s.coating)],
         manufacturing |-> [radius_tolerance |-> s.radiusTolerance,
                            thickness_tolerance |-> s.thicknessTolerance,
                            tilt_tolerance |-> s.tiltTolerance]]

\* _surface_from_lens_x: an air, object, image or stop surface becomes
\* "Air" with coating = None and sellmeier = None; physics is read for glass
\* only.
_surface_from_lens_x(raw) ==
    LET air == LowerStrip(raw.type) \in {"air", "object", "image", "stop"}
    IN  [type |-> IF air THEN "Air" ELSE "Glass",
         radius |-> raw.radius,
         thickness |-> raw.thickness,
         diameter |-> Max(MIN_DIAMETER,
                          2 * (IF raw.aperture = 0 THEN DEFAULT_APERTURE
                                                   ELSE raw.aperture)),
         material |-> IF air THEN "Air" ELSE Strip(raw.material),
         coating |-> IF air THEN "" ELSE Strip(raw.physics.coating),
         sellmeierCoefficients |-> IF air THEN "none" ELSE raw.physics.sellmeier,
         radiusTolerance |-> raw.manufacturing.radius_tolerance,
         thicknessTolerance |-> raw.manufacturing.thickness_tolerance,
         tiltTolerance |-> raw.manufacturing.tilt_tolerance]

\* to_lens_x: optics.surfaces of the document.
to_lens_x ==
    /\ lx_pc = "idle"
    /\ \E surfaces \in SeqsUpTo(LensSurfaces, MaxLensSurfaces) :
         /\ lx_surfaces' = surfaces
         /\ lx_document' = [q \in 1..Len(surfaces) |-> _surface_to_lens_x(surfaces[q])]
    /\ lx_pc' = "exported"
    /\ UNCHANGED <<not_lens_x_vars, lx_imported>>

\* import_from_json of the document: _parse_lens_x, and ValueError for a
\* document without surfaces.
import_from_json ==
    /\ lx_pc = "exported"
    /\ lx_imported' = [q \in 1..Len(lx_document) |-> _surface_from_lens_x(lx_document[q])]
    /\ lx_pc' = IF lx_document = <<>> THEN "raised" ELSE "imported"
    /\ UNCHANGED <<not_lens_x_vars, lx_surfaces, lx_document>>

NextLensX ==
    \/ to_lens_x
    \/ import_from_json

SpecLensX == Init /\ [][NextLensX]_vars

\* C30: exporting a stack with to_lens_x and importing the document with
\* import_from_json gives, surface by surface and in order, the same
\* radius, thickness, diameter, material, type, coating, Sellmeier
\* coefficients and tolerances.
C30_LensXRoundTrip ==
    lx_pc = "imported" =>
        /\ Len(lx_imported) = Len(lx_surfaces)
        /\ \A q \in 1..Len(lx_surfaces) :
             /\ lx_imported[q].radius = lx_surfaces[q].radius
             /\ lx_imported[q].thickness = lx_surfaces[q].thickness
             /\ lx_imported[q].diameter = lx_surfaces[q].diameter
             /\ lx_imported[q].material = lx_surfaces[q].material
             /\ lx_imported[q].type = lx_surfaces[q].type
             /\ lx_imported[q].coating = lx_surfaces[q].coating
             /\ lx_imported[q].sellmeierCoefficients = lx_surfaces[q].sellmeierCoefficients
             /\ lx_imported[q].radiusTolerance = lx_surfaces[q].radiusTolerance
             /\ lx_imported[q].thicknessTolerance = lx_surfaces[q].thicknessTolerance
             /\ lx_imported[q].tiltTolerance = lx_surfaces[q].tiltTolerance

(***************************************************************************)
(* The candidate search of run_optimize_colors (pyodide/trace.py).  The    *)
(* back focal lengths come from run_chromatic_shift; the model takes the   *)
(* chromatic aberration |BFL(486) - BFL(656)| of the singlet and of each   *)
(* doublet from LcaValues, or None when a BFL is not finite or the call    *)
(* raises.                                                                 *)
(***************************************************************************)
LcaScale == 1000 * 1000 * 10

LcaValues == {0, 250004, 1000000}

\* round(float(reduction), 6)
Round6(x) == RoundToEven(x, LcaScale \div (1000 * 1000))

\* _canonical_name(k) of the Sellmeier entries of _GLASS_LIBRARY, in the
\* order of the dict.
GlassOrder == <<"N-BK7", "N-SF11", "Calcium Fluoride">>

\* The first materials of the stacks: names, aliases of the library
\* ("bk7": "n-bk7", "caf2": "calcium fluoride"), air and no name.
FirstMaterials == {"N-BK7", "BK7", "N-SF11", "caf2", "Air", ""}

\* The entry of _GLASS_LIBRARY a material name stands for.
LibraryKey(material) ==
    CASE LowerStrip(material) = "bk7"  -> "n-bk7"
      [] LowerStrip(material) = "caf2" -> "calcium fluoride"
      [] OTHER                         -> LowerStrip(material)

\* if name.lower() == mat1 or name in seen: continue
IsCandidate(name, mat1) == LowerStrip(name) # mat1

\* surfaces, mat1 and the two early returns.
optimize_begin ==
    /\ opt_pc = "idle"
    /\ \E n \in 1..2, material \in FirstMaterials :
         /\ opt_surfaces' = n
         /\ opt_mat1' = LowerStrip(material)
         /\ opt_pc' = IF n < 2 \/ LowerStrip(material) \in {"", "air"}
                        THEN "returned" ELSE "singlet"
    /\ UNCHANGED <<not_opt_vars, opt_lca_singlet, opt_ci, opt_lcas, opt_best_glass,
                   opt_best_lca, opt_result>>

\* singlet_result = run_chromatic_shift(...); a BFL that is not finite
\* returns the empty recommendation.
optimize_singlet ==
    /\ opt_pc = "singlet"
    /\ \E lca \in {None} \cup {Some(v) : v \in LcaValues} :
         /\ opt_lca_singlet' = lca
         /\ opt_pc' = IF lca = None THEN "returned" ELSE "candidates"
    /\ opt_ci' = 1
    /\ opt_lcas' = <<>>
    /\ opt_best_glass' = ""
    /\ opt_best_lca' = INF
    /\ UNCHANGED <<not_opt_vars, opt_surfaces, opt_mat1, opt_result>>

\* if lca < best_lca: best_lca = lca; best_glass = glass_name
Better(lca) == lca # None /\ lca[1] < opt_best_lca

\* One entry of the library: skipped when its name is mat1, evaluated
\* otherwise.
optimize_candidate ==
    /\ opt_pc = "candidates"
    /\ opt_ci <= Len(GlassOrder)
    /\ \E lca \in IF IsCandidate(GlassOrder[opt_ci], opt_mat1)
                    THEN {None} \cup {Some(v) : v \in LcaValues} ELSE {None} :
         /\ opt_lcas' = Append(opt_lcas, lca)
         /\ opt_best_lca' = IF Better(lca) THEN lca[1] ELSE opt_best_lca
         /\ opt_best_glass' = IF Better(lca) THEN GlassOrder[opt_ci] ELSE opt_best_glass
    /\ opt_ci' = opt_ci + 1
    /\ UNCHANGED <<not_opt_vars, opt_pc, opt_surfaces, opt_mat1, opt_lca_singlet,
                   opt_result>>

\* if not best_glass: the empty recommendation; else the best glass and
\* round(max(0.0, lca_singlet - best_lca), 6).
optimize_return ==
    /\ opt_pc = "candidates"
    /\ opt_ci > Len(GlassOrder)
    /\ opt_pc' = "returned"
    /\ opt_result' =
         IF opt_best_glass = ""
           THEN [recommended_glass |-> "", estimated_lca_reduction |-> 0]
           ELSE [recommended_glass |-> opt_best_glass,
                 estimated_lca_reduction |->
                     Round6(Max(0, opt_lca_singlet[1] - opt_best_lca))]
    /\ UNCHANGED <<not_opt_vars, opt_surfaces, opt_mat1, opt_lca_singlet, opt_ci,
                   opt_lcas, opt_best_glass, opt_best_lca>>

NextOptimize ==
    \/ optimize_begin
    \/ optimize_singlet
    \/ optimize_candidate
    \/ optimize_return

SpecOptimize == Init /\ [][NextOptimize]_vars

\* The library entries that gave a finite aberration.
Evaluated == { c \in 1..Len(opt_lcas) : opt_lcas[c] # None }

\* C21: run_optimize_colors returns the catalog glass whose doublet has the
\* smallest |BFL(486) - BFL(656)| among the candidates with a finite BFL at
\* both wavelengths, never the glass of the first element, with the
\* reduction max(0, LCA_singlet - LCA_best) (to the six decimals the result
\* carries); a stack of fewer than two surfaces, an air or unnamed first
\* material, a singlet without a finite aberration or no candidate that can
\* be evaluated give the empty recommendation with reduction 0.
C21_BestSecondGlass ==
    opt_pc = "returned" =>
        IF opt_surfaces < 2 \/ opt_mat1 \in {"", "air"} \/ opt_lca_singlet = None
             \/ Evaluated = {}
          THEN opt_result = [recommended_glass |-> "", estimated_lca_reduction |-> 0]
          ELSE \E c \in Evaluated :
                 /\ opt_result.recommended_glass = GlassOrder[c]
                 /\ \A d \in Evaluated : opt_lcas[c][1] <= opt_lcas[d][1]
                 /\ LibraryKey(GlassOrder[c]) # LibraryKey(opt_mat1)
                 /\ opt_result.estimated_lca_reduction =
                        Round6(Max(0, opt_lca_singlet[1] - opt_lcas[c][1]))

Next ==
    \/ run_trace_begin
    \/ trace_ray_begin
    \/ trace_ray_surface
    \/ trace_ray_return
    \/ run_trace_finish

Spec == Init /\ [][Next]_vars

====
